---- MODULE Spec2Model ----
(***************************************************************************)
(* Model of the paper-trading ledger (scripts/paper_trader.py) and of the  *)
(* copy-trading risk gate (scripts/risk_manager.py).                       *)
(*                                                                         *)
(* Units.  Quoted prices are in 1/1000 USDC, slippage and the taker fee in *)
(* 1/1000, executed prices in 1e-6 USDC per share, money in 1e-6 USDC.     *)
(* The program computes in binary floating point; the model computes in    *)
(* these integer units and truncates a quotient to the unit.               *)
(* Time of the risk gate is in hours since the start of day 0 (UTC).       *)
(***************************************************************************)
EXTENDS Integers, Sequences, FiniteSets, TLC

VARIABLES
    \* ---- PaperTrader (scripts/paper_trader.py)
    balance,        \* self.balance
    positions,      \* self.positions: position key -> Position
    trade_history,  \* self.trade_history, newest first
    lock,           \* self._lock: the thread holding it, or NoThread
    db_trades,      \* rows of the trades table, in insertion order
    db_state,       \* the state table's balance rows (none before the first
                    \* _save_state) and the positions table
    pc,             \* per thread: where it stands in execute_trade
    call,           \* per thread: the arguments of its execute_trade call
    loc,            \* per thread: the locals of execute_trade
    result,         \* per thread: what its last call returned: ok is "True" or
                    \* "False" as returned, "raised" for an exception
    serial,         \* the ledger obtained by running the calls one at a time
    \* ---- RiskManager (scripts/risk_manager.py)
    now,                  \* datetime.utcnow(), in hours
    trading_halted,       \* self.trading_halted
    trading_halt_reason,  \* self.trading_halt_reason
    trading_halt_until,   \* self.trading_halt_until, or NoTime
    blocked_wallets,      \* self.blocked_wallets
    wallet_performance,   \* self.wallet_performance: address -> WalletPerformance
    daily_losses,         \* self.daily_losses: day -> loss amount
    risk_events,          \* self.risk_events: the event types, oldest first
    recorded,             \* per source: the trade results handed to record_trade_result
    last,                 \* the last call made to the risk manager and its return
    \* ---- PolymarketCopyBot (scripts/main.py)
    copy,                 \* on_trade_detected: its stage and trade; trades_copied; running
    \* ---- PaperTradingBot (bot_paper.py), PositionManager (src/position_manager.py)
    clock,             \* datetime.now(), in units of 30 seconds
    pm_positions,      \* PositionManager.positions: position id -> Position
    closed_positions,  \* PositionManager.closed_positions
    total_pnl,         \* PositionManager.total_pnl, in cents
    win_count,         \* PositionManager.win_count
    loss_count,        \* PositionManager.loss_count
    running,           \* PaperTradingBot.running
    feed_running,      \* PaperExchangeMonitor.running
    gen,               \* the _generate_prices task: where it stands, the callbacks left
                       \* in its round, the opportunity whose order it is placing
    mon,               \* the task of main(): start() and its monitoring loop
    next_id,           \* the number of positions created so far
    close_ret,         \* the last direct call of close_position and its return
    \* ---- ArbitrageDetector (src/src/arbitrage_detector.py)
    dnow,              \* datetime.now(), in seconds
    price_history,     \* self.price_history: symbol -> snapshots, oldest first
    recent_opportunities,  \* self.recent_opportunities
    det_ret,           \* the opportunities the last call or price update returned
    \* ---- RiskManager of the arbitrage bot (src/src/risk_manager.py)
    date,             \* datetime.now().date(), as a day number
    daily_pnl,         \* self.daily_pnl, in cents
    last_reset,        \* self.last_reset, as a day number
    emergency_shutdown,  \* self.emergency_shutdown
    gate_ret,          \* the last call of the risk manager and what it returned
    \* ---- PaperTrader.__init__ (scripts/paper_trader.py)
    boot,              \* how many PaperTraders were constructed on the database, and
                       \* whether one is running
    \* ---- RiskManager.calculate_position_size (scripts/risk_manager.py)
    sizing,            \* the last call: its arguments and what it returned
    \* ---- CircuitBreaker (src/src/safety.py)
    bnow,              \* datetime.now(), in seconds
    breaker,           \* state, failure_count, last_failure_time, opened_at
    breaker_ret,       \* the last call of the breaker and what can_attempt returned
    half_open_admitted, \* history: can_attempt has admitted an attempt in half_open
                       \* whose outcome is not recorded yet
    \* ---- ExchangeMonitor's watcher tasks (src/src/exchange_monitor.py, src/bot.py)
    watch              \* for every symbol, where its _watch_ticker task is

ledger_vars == <<balance, positions, trade_history, lock, db_trades, db_state,
                 pc, call, loc, result, serial>>

risk_vars == <<now, trading_halted, trading_halt_reason, trading_halt_until,
               blocked_wallets, wallet_performance, daily_losses, risk_events,
               recorded, last>>

copy_vars == <<copy>>

engine_vars == <<clock, pm_positions, closed_positions, total_pnl, win_count, loss_count,
                 running, feed_running, gen, mon, next_id, close_ret>>

detector_vars == <<dnow, price_history, recent_opportunities, det_ret>>

gate_vars == <<date, daily_pnl, last_reset, emergency_shutdown, gate_ret>>
boot_vars == <<boot>>
sizing_vars == <<sizing>>
breaker_vars == <<bnow, breaker, breaker_ret, half_open_admitted>>
watch_vars == <<watch>>
vars == <<ledger_vars, risk_vars, copy_vars, engine_vars, detector_vars, gate_vars,
          boot_vars, sizing_vars, breaker_vars, watch_vars>>

None == "None"
NoThread == 0
NoResult == [ok |-> None, message |-> None, trade |-> None]
NoArguments == [market_id |-> None, outcome |-> None, side |-> None, shares |-> 0, price |-> 0]

\* ------------------------------------------------------------------ bounds
NumThreads == 2
Threads == 1..NumThreads

Markets == {"m1", "m2"}
Outcomes == {"Yes"}
ShareInputs == {0, 10, 999, 1000, 1001}
PriceInputs == {500, 1000}

\* ------------------------------------------------- configuration, constants
initial_balance == 1100 * 1000 * 1000
slippage_min == 5
slippage_max == 10
gas_cost_gwei == 50
gas_limit == 200000
TAKER_FEE_RATE == 2
FullCloseThreshold == 999

SlippageDraws == {slippage_min, slippage_max}

\* gas_cost_gwei * 1e-9 * gas_limit MATIC at 0.50 USDC, in 1e-6 USDC
gas_cost_usdc == (gas_cost_gwei * gas_limit) \div 2000

position_key(market_id, outcome) == market_id \o ":" \o outcome

\* The cost figures execute_trade computes before it looks at the ledger.
Costs(side, shares, price, slippage) ==
    LET executed_price == IF side = "BUY" THEN price * (1000 + slippage)
                                          ELSE price * (1000 - slippage)
        amount == shares * executed_price
        fees == (amount * TAKER_FEE_RATE) \div 1000
    IN  [slippage |-> slippage, executed_price |-> executed_price,
         amount |-> amount, fees |-> fees,
         total_cost |-> amount + fees + gas_cost_usdc]

Position(market_id, outcome, entry_price, shares, side) ==
    [market_id |-> market_id, outcome |-> outcome, entry_price |-> entry_price,
     shares |-> shares, side |-> side]

TradeRecord(c, k, realized_pnl) ==
    [market_id |-> c.market_id, outcome |-> c.outcome, side |-> c.side,
     shares |-> c.shares, price |-> k.executed_price, amount |-> k.amount,
     fees |-> k.fees, slippage |-> k.slippage, total_cost |-> k.total_cost,
     realized_pnl |-> realized_pnl]

\* (mutant of Rejection: a SELL of more shares than held is let through)
Rejection_NoSharesCheck(bal, pos, c, k) ==
    LET key == position_key(c.market_id, c.outcome)
    IN  IF c.side = "BUY"
        THEN IF k.total_cost > bal THEN "InsufficientBalance" ELSE None
        ELSE IF key \notin DOMAIN pos THEN "NoSuchPosition" ELSE None

\* The rejection execute_trade returns for call c with costs k, or None.
Rejection(bal, pos, c, k) ==
    LET key == position_key(c.market_id, c.outcome)
    IN  IF c.side = "BUY"
        THEN IF k.total_cost > bal THEN "InsufficientBalance" ELSE None
        ELSE IF key \notin DOMAIN pos THEN "NoSuchPosition"
             ELSE IF c.shares > pos[key].shares THEN "InsufficientShares"
             ELSE None

\* (mutant of BuyPositions: the latest executed price replaces the entry price)
BuyPositions_LastPrice(pos, c, k) ==
    LET key == position_key(c.market_id, c.outcome)
    IN  IF key \in DOMAIN pos
        THEN [pos EXCEPT ![key].entry_price = k.executed_price,
                         ![key].shares = pos[key].shares + c.shares]
        ELSE [x \in DOMAIN pos \cup {key} |->
                IF x = key
                THEN Position(c.market_id, c.outcome, k.executed_price, c.shares, "LONG")
                ELSE pos[x]]

\* BUY: add to the position of the key (averaging the entry price) or create it.
BuyPositions(pos, c, k) ==
    LET key == position_key(c.market_id, c.outcome)
    IN  IF key \in DOMAIN pos
        THEN LET total_shares == pos[key].shares + c.shares
                 avg_price == ((pos[key].entry_price * pos[key].shares)
                               + (k.executed_price * c.shares)) \div total_shares
             IN  [pos EXCEPT ![key].entry_price = avg_price,
                             ![key].shares = total_shares]
        ELSE [x \in DOMAIN pos \cup {key} |->
                IF x = key
                THEN Position(c.market_id, c.outcome, k.executed_price, c.shares, "LONG")
                ELSE pos[x]]

\* (mutant of SellPositions: only a sale of every share removes the position)
SellPositions_AllSharesOnly(pos, c) ==
    LET key == position_key(c.market_id, c.outcome)
    IN  IF c.shares >= pos[key].shares
        THEN [x \in DOMAIN pos \ {key} |-> pos[x]]
        ELSE [pos EXCEPT ![key].shares = pos[key].shares - c.shares]

\* SELL: remove the position when the sale covers 99.9% of it, else reduce it.
SellPositions(pos, c) ==
    LET key == position_key(c.market_id, c.outcome)
    IN  IF c.shares * 1000 >= pos[key].shares * FullCloseThreshold
        THEN [x \in DOMAIN pos \ {key} |-> pos[x]]
        ELSE [pos EXCEPT ![key].shares = pos[key].shares - c.shares]

RealizedPnl(p, c, k) ==
    IF p.side = "LONG"
    THEN ((k.executed_price - p.entry_price) * c.shares) - k.fees - gas_cost_usdc
    ELSE ((p.entry_price - k.executed_price) * c.shares) - k.fees - gas_cost_usdc

\* (mutant of NewBalance: the BUY debit leaves out fees and gas)
NewBalance_AmountOnly(bal, c, k) ==
    IF c.side = "BUY" THEN bal - k.amount
                      ELSE bal + (k.amount - k.fees - gas_cost_usdc)

\* BUY debits total_cost; SELL credits the proceeds less fees and gas.
NewBalance(bal, c, k) ==
    IF c.side = "BUY" THEN bal - k.total_cost
                      ELSE bal + (k.amount - k.fees - gas_cost_usdc)

\* execute_trade run alone from ledger led: the ledger it leaves.
ExecuteTrade(led, c, k) ==
    IF Rejection(led.balance, led.positions, c, k) # None
    THEN led
    ELSE LET key == position_key(c.market_id, c.outcome)
             pnl == IF c.side = "SELL" THEN RealizedPnl(led.positions[key], c, k)
                                       ELSE None
         IN  [balance |-> NewBalance(led.balance, c, k),
              positions |-> IF c.side = "BUY" THEN BuyPositions(led.positions, c, k)
                                              ELSE SellPositions(led.positions, c),
              trade_history |-> <<TradeRecord(c, k, pnl)>> \o led.trade_history]


\* ------------------------------------------------ the ledger a start loads
\* _load_state reads the balance, the positions and the trade history back
\* from the database.  The stored ledgers considered are the ones earlier
\* fills of the ledger's own rules leave: none, or a BUY of 1000 shares
\* quoted at 0.500 in either market.
EmptyPositions == [x \in {} |-> None]

FreshLedger ==
    [balance |-> initial_balance, positions |-> EmptyPositions, trade_history |-> << >>]

\* the tables as _init_db creates them
EmptyDatabase == [balance |-> << >>, positions |-> EmptyPositions]

StoredCall(m) ==
    [market_id |-> m, outcome |-> "Yes", side |-> "BUY", shares |-> 1000, price |-> 500]

StoredFill(led, m) ==
    ExecuteTrade(led, StoredCall(m), Costs("BUY", 1000, 500, slippage_min))

StoredLedgers ==
    {FreshLedger, StoredFill(FreshLedger, "m1"), StoredFill(FreshLedger, "m2"),
     StoredFill(StoredFill(FreshLedger, "m1"), "m2")}

RECURSIVE Reverse(_)
Reverse(s) == IF s = << >> THEN << >> ELSE Reverse(Tail(s)) \o <<Head(s)>>

Calls ==
    [market_id : Markets, outcome : Outcomes, side : {"BUY", "SELL"},
     shares : ShareInputs, price : PriceInputs]

Ledger == [balance |-> balance, positions |-> positions, trade_history |-> trade_history]

LedgerInit ==
    /\ \E led \in StoredLedgers :
        /\ balance = led.balance
        /\ positions = led.positions
        /\ trade_history = led.trade_history
        /\ db_trades = Reverse(led.trade_history)
        /\ db_state = IF led = FreshLedger THEN EmptyDatabase
                      ELSE [balance |-> <<led.balance>>, positions |-> led.positions]
        /\ serial = led
    /\ lock = NoThread
    /\ pc = [t \in Threads |-> "idle"]
    /\ call = [t \in Threads |-> NoArguments]
    /\ loc = [t \in Threads |-> None]
    /\ result = [t \in Threads |-> NoResult]

\* ------------------------------------------------------ execute_trade, by step
\* A thread calls execute_trade and reaches "with self._lock:".  The arguments
\* of the call are first read under the lock, and are drawn there (Validate).
Call(t) ==
    /\ pc[t] = "idle"
    /\ pc' = [pc EXCEPT ![t] = "acquire"]
    /\ result' = [result EXCEPT ![t] = NoResult]
    /\ UNCHANGED <<balance, positions, trade_history, lock, db_trades, db_state,
                   call, loc, serial>>
    /\ UNCHANGED risk_vars

\* (mutant of LockAvailable: the lock excludes nobody)
LockAvailable_NoExclusion == TRUE

\* threading.Lock is not reentrant: acquire succeeds only while nobody holds it.
LockAvailable == lock = NoThread

\* "with self._lock:", at the head of execute_trade and again in _save_state,
\* which execute_trade calls while it still holds the lock.
LockAcquire(t) ==
    /\ pc[t] \in {"acquire", "save_state"}
    /\ LockAvailable
    /\ IF pc[t] = "acquire"
       THEN /\ lock' = t
            /\ pc' = [pc EXCEPT ![t] = "validate"]
            /\ UNCHANGED <<db_state, result>>
       ELSE \* _save_state writes the balance and the positions and releases the
            \* lock; execute_trade then returns (True, message, trade)
            /\ db_state' = [balance |-> <<balance>>, positions |-> positions]
            /\ lock' = NoThread
            /\ pc' = [pc EXCEPT ![t] = "idle"]
            /\ result' = [result EXCEPT ![t] =
                            [ok |-> "True", message |-> "Trade executed successfully",
                             trade |-> loc[t].trade]]
    /\ UNCHANGED <<balance, positions, trade_history, db_trades, call, loc, serial>>
    /\ UNCHANGED risk_vars

\* The slippage draw, the cost figures and the checks that reject a call.
Validate(t, c, slippage) ==
    /\ pc[t] = "validate"
    /\ LET k == Costs(c.side, c.shares, c.price, slippage)
           rej == Rejection(balance, positions, c, k)
       IN  /\ IF rej # None
              THEN /\ pc' = [pc EXCEPT ![t] = "idle"]
                   /\ lock' = NoThread
                   /\ result' = [result EXCEPT ![t] =
                                   [ok |-> "False", message |-> rej, trade |-> None]]
                   /\ UNCHANGED <<call, loc>>
              ELSE /\ pc' = [pc EXCEPT ![t] = "apply"]
                   /\ call' = [call EXCEPT ![t] = c]
                   /\ loc' = [loc EXCEPT ![t] = [costs |-> k]]
                   /\ UNCHANGED <<result, lock>>
           /\ serial' = ExecuteTrade(serial, c, k)
    /\ UNCHANGED <<balance, positions, trade_history, db_trades, db_state>>
    /\ UNCHANGED risk_vars

\* The position update, and the read of self.balance for the debit or credit.
ApplyPosition(t) ==
    /\ pc[t] = "apply"
    /\ LET c == call[t]
           k == loc[t].costs
           key == position_key(c.market_id, c.outcome)
           raises ==
               IF c.side = "BUY"
               THEN IF key \in DOMAIN positions /\ positions[key].shares + c.shares = 0
                    THEN "ZeroDivisionError" ELSE None
               ELSE IF key \notin DOMAIN positions THEN "KeyError" ELSE None
       IN  IF raises # None
           THEN \* the exception leaves the with block, which releases the lock
                /\ pc' = [pc EXCEPT ![t] = "idle"]
                /\ lock' = NoThread
                /\ result' = [result EXCEPT ![t] =
                                [ok |-> "raised", message |-> raises, trade |-> None]]
                /\ call' = [call EXCEPT ![t] = NoArguments]
                /\ loc' = [loc EXCEPT ![t] = None]
                /\ UNCHANGED positions
           ELSE /\ pc' = [pc EXCEPT ![t] = "commit"]
                /\ positions' = IF c.side = "BUY" THEN BuyPositions(positions, c, k)
                                                  ELSE SellPositions(positions, c)
                /\ loc' = [loc EXCEPT ![t] =
                             [costs |-> k,
                              realized_pnl |-> IF c.side = "SELL"
                                               THEN RealizedPnl(positions[key], c, k)
                                               ELSE None,
                              balance_read |-> balance]]
                /\ UNCHANGED <<result, lock, call>>
    /\ UNCHANGED <<balance, trade_history, db_trades, db_state, serial>>
    /\ UNCHANGED risk_vars

\* The write of self.balance, the trade record, its insertion in the history
\* and in the trades table; then the call of _save_state.
Commit(t) ==
    /\ pc[t] = "commit"
    /\ pc' = [pc EXCEPT ![t] = "save_state"]
    /\ LET c == call[t]
           k == loc[t].costs
           trade == TradeRecord(c, k, loc[t].realized_pnl)
       IN  /\ balance' = NewBalance(loc[t].balance_read, c, k)
           /\ trade_history' = <<trade>> \o trade_history
           /\ db_trades' = Append(db_trades, trade)
           /\ loc' = [loc EXCEPT ![t] = [costs |-> k, trade |-> trade]]
    /\ UNCHANGED <<positions, lock, db_state, call, result, serial>>
    /\ UNCHANGED risk_vars

LedgerNext ==
    \/ \E t \in Threads : Call(t) /\ UNCHANGED <<copy_vars, engine_vars, detector_vars, gate_vars, boot_vars, sizing_vars, breaker_vars, watch_vars>>
    \/ \E t \in Threads : LockAcquire(t) /\ UNCHANGED <<copy_vars, engine_vars, detector_vars, gate_vars, boot_vars, sizing_vars, breaker_vars, watch_vars>>
    \/ \E t \in Threads, c \in Calls, s \in SlippageDraws :
          Validate(t, c, s) /\ UNCHANGED <<copy_vars, engine_vars, detector_vars, gate_vars, boot_vars, sizing_vars, breaker_vars, watch_vars>>
    \/ \E t \in Threads : ApplyPosition(t) /\ UNCHANGED <<copy_vars, engine_vars, detector_vars, gate_vars, boot_vars, sizing_vars, breaker_vars, watch_vars>>
    \/ \E t \in Threads : Commit(t) /\ UNCHANGED <<copy_vars, engine_vars, detector_vars, gate_vars, boot_vars, sizing_vars, breaker_vars, watch_vars>>

\* ------------------------------------------------ the statistics, by step
\* get_performance_stats takes the lock and, holding it, calls
\* get_portfolio_value, which takes the lock itself. get_portfolio_stats
\* calls get_performance_stats and then get_portfolio_value.
StatsOperations == {"get_performance_stats", "get_portfolio_stats"}

StatsCall(t, op) ==
    /\ pc[t] = "idle"
    /\ pc' = [pc EXCEPT ![t] = IF op = "get_performance_stats" THEN "stats_acquire"
                                                               ELSE "pstats_acquire"]
    /\ result' = [result EXCEPT ![t] = NoResult]
    /\ UNCHANGED <<balance, positions, trade_history, lock, db_trades, db_state,
                   call, loc, serial>>
    /\ UNCHANGED risk_vars

\* "with self._lock:" in get_performance_stats and in get_portfolio_value
StatsLockAcquire(t) ==
    /\ pc[t] \in {"stats_acquire", "pstats_acquire", "stats_portfolio", "pstats_portfolio",
                  "pstats_value"}
    /\ LockAvailable
    /\ IF pc[t] \in {"stats_acquire", "pstats_acquire"}
       THEN \* get_performance_stats holds the lock and calls get_portfolio_value
            /\ lock' = t
            /\ pc' = [pc EXCEPT ![t] = IF pc[t] = "stats_acquire" THEN "stats_portfolio"
                                                                  ELSE "pstats_portfolio"]
       ELSE \* get_portfolio_value takes the lock, reads, and releases it; its
            \* caller goes on: get_performance_stats returns,
            \* get_portfolio_stats calls get_portfolio_value once more
            /\ lock' = NoThread
            /\ pc' = [pc EXCEPT ![t] = IF pc[t] = "pstats_portfolio" THEN "pstats_value"
                                                                     ELSE "idle"]
    /\ UNCHANGED <<balance, positions, trade_history, db_trades, db_state, call, loc,
                   result, serial>>
    /\ UNCHANGED risk_vars

\* the ledger's operations that take the lock
LockNext ==
    \/ LedgerNext
    \/ \E t \in Threads, op \in StatsOperations :
          StatsCall(t, op) /\ UNCHANGED <<copy_vars, engine_vars, detector_vars, gate_vars, boot_vars, sizing_vars, breaker_vars, watch_vars>>
    \/ \E t \in Threads :
          StatsLockAcquire(t) /\ UNCHANGED <<copy_vars, engine_vars, detector_vars, gate_vars, boot_vars, sizing_vars, breaker_vars, watch_vars>>

\* what a thread does once it is inside an operation
Progress(t) ==
    \/ LockAcquire(t)
    \/ \E c \in Calls, s \in SlippageDraws : Validate(t, c, s)
    \/ ApplyPosition(t)
    \/ Commit(t)
    \/ StatsLockAcquire(t)

\* ------------------------------------------- execute_trade, call after call
\* The ledger arithmetic of execute_trade on its own: one caller, every call
\* run to its return with the state saved, which is the setting of the claims
\* about sequences of fills (how the call takes the lock is in the steps above).
MaxFills == 3

FillShares == {0, 842, 999, 1000}
FillPrices == {500, 700}

FillCalls ==
    [market_id : Markets, outcome : {"Yes"}, side : {"BUY", "SELL"},
     shares : FillShares, price : FillPrices]

\* the averaging of a BUY divides by the new number of shares
Raises(pos, c) ==
    LET key == position_key(c.market_id, c.outcome)
    IN  c.side = "BUY" /\ key \in DOMAIN pos /\ pos[key].shares + c.shares = 0

Fill(c, slippage) ==
    /\ \A t \in Threads : pc[t] = "idle"
    /\ lock = NoThread
    /\ Len(trade_history) < MaxFills
    /\ LET k == Costs(c.side, c.shares, c.price, slippage)
           led == IF Raises(positions, c) THEN Ledger ELSE ExecuteTrade(Ledger, c, k)
       IN  /\ balance' = led.balance
           /\ positions' = led.positions
           /\ trade_history' = led.trade_history
           /\ serial' = led
           /\ IF led.trade_history # trade_history
              THEN /\ db_trades' = Append(db_trades, Head(led.trade_history))
                   /\ db_state' = [balance |-> <<led.balance>>, positions |-> led.positions]
              ELSE UNCHANGED <<db_trades, db_state>>
    /\ UNCHANGED <<lock, pc, call, loc, result>>
    /\ UNCHANGED risk_vars

FillNext ==
    \E c \in FillCalls, s \in SlippageDraws :
        Fill(c, s) /\ UNCHANGED <<copy_vars, engine_vars, detector_vars, gate_vars, boot_vars, sizing_vars, breaker_vars, watch_vars>>

\* ======================================================= the risk manager
\* ------------------------------------------------------------------ bounds
MaxNow == 24
MaxRecorded == 2
\* the configured values of min_trades_for_win_rate (20 by default) and of the
\* length risk_events is cut to (1000 in the program), scaled down
min_trades_for_win_rate == 2
RiskEventsCap == 2

WalletInputs == {"0xABC", "0xbad"}
BalanceInputs == {4000, 10000}
AmountInputs == {500, 800}
OpenCountInputs == {0, 10}
PnlInputs == {0 - 300, 100}

\* ------------------------------------------------- configuration, constants
daily_loss_limit_percent == 5
max_position_size_percent == 5
max_concurrent_positions == 10
min_win_rate_percent == 50
auto_unfollow_bad_performers == TRUE
HaltHours == 24
HoursPerDay == 24
TradeHistoryCap == 100
NoTime == 0 - 1

TickHours == HoursPerDay \div 2

\* str.lower() on the addresses considered
Lower(wallet_address) == IF wallet_address = "0xABC" THEN "0xabc" ELSE wallet_address

Sources == {Lower(w) : w \in WalletInputs}

\* config["target_wallets"]: the wallets _init_wallet_tracking sets up
TargetWallets == {"0xABC"}

\* datetime.utcnow().date().isoformat(): the day a time falls in
Today(t) == t \div HoursPerDay

NewWalletPerformance(address) ==
    [address |-> address, total_trades |-> 0, winning_trades |-> 0, losing_trades |-> 0,
     total_pnl |-> 0, trade_history |-> << >>,
     is_active |-> TRUE, unfollow_reason |-> None]

\* WalletPerformance.win_rate < min_win_rate_percent
WinRateBelowFloor(perf) ==
    IF perf.total_trades = 0 THEN 0 < min_win_rate_percent
    ELSE perf.winning_trades * 100 < min_win_rate_percent * perf.total_trades

\* self.x[-cap:]
KeepLast(seq, cap) ==
    IF Len(seq) > cap THEN SubSeq(seq, Len(seq) - cap + 1, Len(seq)) ELSE seq

\* _record_risk_event
RecordRiskEvent(events, event_type) == KeepLast(Append(events, event_type), RiskEventsCap)

\* self.daily_losses.get(date, 0)
DailyLoss(losses, day) == IF day \in DOMAIN losses THEN losses[day] ELSE 0

NoCall == [op |-> None, allowed |-> None, reason |-> None, resumed |-> FALSE,
           reported_halted |-> FALSE]

RiskInit ==
    /\ now = 0
    /\ trading_halted = FALSE
    /\ trading_halt_reason = None
    /\ trading_halt_until = NoTime
    /\ blocked_wallets = {}
    /\ wallet_performance = [a \in {Lower(w) : w \in TargetWallets} |-> NewWalletPerformance(a)]
    /\ daily_losses = [d \in {} |-> 0]
    /\ risk_events = << >>
    /\ recorded = [a \in Sources |-> [total |-> 0, wins |-> 0]]
    /\ last = NoCall

\* ---- check_trade_allowed
HaltActive_InvertedUntil == trading_halted /\ trading_halt_until = NoTime

HaltActive_NoExpiry == trading_halted

\* the halt is set and has not run out
HaltActive == trading_halted /\ trading_halt_until # NoTime /\ now < trading_halt_until

HaltState ==
    [halted |-> trading_halted, reason |-> trading_halt_reason, until |-> trading_halt_until]

NoHalt == [halted |-> FALSE, reason |-> None, until |-> NoTime]

AfterResumeCheck_KeepsHalt == HaltState

\* the halt once the call is past its first check: a halt that has run out is
\* cleared ("Resume trading")
AfterResumeCheck == IF trading_halted /\ ~HaltActive THEN NoHalt ELSE HaltState

\* _halt_trading(reason, hours)
HaltTrading(reason, hours) == [halted |-> TRUE, reason |-> reason, until |-> now + hours]

Blocked(addr_lower) == addr_lower \in blocked_wallets

PoorPerformer(addr_lower) ==
    /\ addr_lower \in DOMAIN wallet_performance
    /\ auto_unfollow_bad_performers
    /\ wallet_performance[addr_lower].total_trades >= min_trades_for_win_rate
    /\ WinRateBelowFloor(wallet_performance[addr_lower])

\* daily_loss >= current_balance * (daily_loss_limit_percent / 100)
DailyLossHit(current_balance) ==
    DailyLoss(daily_losses, Today(now)) * 100 >= current_balance * daily_loss_limit_percent

\* trade_amount > current_balance * (max_position_size_percent / 100)
SizeExceeded(current_balance, trade_amount) ==
    trade_amount * 100 > current_balance * max_position_size_percent

TooManyPositions(open_positions_count) == open_positions_count >= max_concurrent_positions

Decision_SizeBeforeDailyLoss(wallet_address, current_balance, trade_amount, open_positions_count) ==
    IF HaltActive THEN "halted"
    ELSE IF Blocked(Lower(wallet_address)) THEN "blocked"
    ELSE IF PoorPerformer(Lower(wallet_address)) THEN "win_rate"
    ELSE IF SizeExceeded(current_balance, trade_amount) THEN "size"
    ELSE IF DailyLossHit(current_balance) THEN "daily_loss"
    ELSE IF TooManyPositions(open_positions_count) THEN "max_positions"
    ELSE "allowed"

Decision_DailyLossBeforeWinRate(wallet_address, current_balance, trade_amount, open_positions_count) ==
    IF HaltActive THEN "halted"
    ELSE IF DailyLossHit(current_balance) THEN "daily_loss"
    ELSE IF Blocked(Lower(wallet_address)) THEN "blocked"
    ELSE IF PoorPerformer(Lower(wallet_address)) THEN "win_rate"
    ELSE IF SizeExceeded(current_balance, trade_amount) THEN "size"
    ELSE IF TooManyPositions(open_positions_count) THEN "max_positions"
    ELSE "allowed"

\* The return of check_trade_allowed: the first of its checks that fails.
Decision(wallet_address, current_balance, trade_amount, open_positions_count) ==
    IF HaltActive THEN "halted"
    ELSE IF Blocked(Lower(wallet_address)) THEN "blocked"
    ELSE IF PoorPerformer(Lower(wallet_address)) THEN "win_rate"
    ELSE IF DailyLossHit(current_balance) THEN "daily_loss"
    ELSE IF SizeExceeded(current_balance, trade_amount) THEN "size"
    ELSE IF TooManyPositions(open_positions_count) THEN "max_positions"
    ELSE "allowed"

CheckTradeAllowed(wallet_address, current_balance, trade_amount, open_positions_count) ==
    LET addr_lower == Lower(wallet_address)
        d == Decision(wallet_address, current_balance, trade_amount, open_positions_count)
        resumed == trading_halted /\ ~HaltActive
        halt == IF d = "halted" THEN HaltState
                ELSE IF d = "daily_loss" THEN HaltTrading("daily_loss", HaltHours)
                ELSE AfterResumeCheck
    IN  /\ last' = [op |-> "check_trade_allowed",
                    allowed |-> IF d = "allowed" THEN "True" ELSE "False",
                    reason |-> d, resumed |-> resumed, reported_halted |-> FALSE]
        /\ trading_halted' = halt.halted
        /\ trading_halt_reason' = halt.reason
        /\ trading_halt_until' = halt.until
        /\ IF d = "win_rate"
           THEN \* the source is blocked and marked inactive
                /\ blocked_wallets' = blocked_wallets \cup {addr_lower}
                /\ wallet_performance' =
                       [wallet_performance EXCEPT ![addr_lower].is_active = FALSE,
                                                  ![addr_lower].unfollow_reason = "win_rate"]
                /\ risk_events' = RecordRiskEvent(risk_events, "AUTO_UNFOLLOW")
           ELSE IF d = "daily_loss"
           THEN /\ risk_events' = RecordRiskEvent(risk_events, "TRADING_HALTED")
                /\ UNCHANGED <<blocked_wallets, wallet_performance>>
           ELSE UNCHANGED <<blocked_wallets, wallet_performance, risk_events>>
        /\ UNCHANGED <<now, daily_losses, recorded>>
        /\ UNCHANGED ledger_vars

\* ---- record_trade_result, WalletPerformance.record_trade
\* (last_trade_time, which no decision reads, is left out)
RecordTrade(perf, trade_pnl) ==
    [perf EXCEPT
        !.total_trades = @ + 1,
        !.total_pnl = @ + trade_pnl,
        !.winning_trades = IF trade_pnl > 0 THEN @ + 1 ELSE @,
        !.losing_trades = IF trade_pnl < 0 THEN @ + 1 ELSE @,
        !.trade_history = KeepLast(Append(@, trade_pnl), TradeHistoryCap)]

RECURSIVE SumTotals(_)
SumTotals(S) ==
    IF S = {} THEN 0
    ELSE LET a == CHOOSE x \in S : TRUE IN recorded[a].total + SumTotals(S \ {a})

RecordedTotal == SumTotals(Sources)

RecordTradeResult(wallet_address, trade_pnl) ==
    LET addr_lower == Lower(wallet_address)
        today == Today(now)
    IN  /\ RecordedTotal < MaxRecorded
        /\ wallet_performance' =
               IF addr_lower \in DOMAIN wallet_performance
               THEN [wallet_performance EXCEPT ![addr_lower] = RecordTrade(@, trade_pnl)]
               ELSE wallet_performance
        /\ daily_losses' =
               IF trade_pnl < 0
               THEN [x \in DOMAIN daily_losses \cup {today} |->
                        IF x = today THEN DailyLoss(daily_losses, today) + (0 - trade_pnl)
                        ELSE daily_losses[x]]
               ELSE daily_losses
        /\ recorded' = [recorded EXCEPT
                           ![addr_lower].total = @ + 1,
                           ![addr_lower].wins = IF trade_pnl > 0 THEN @ + 1 ELSE @]
        /\ last' = [NoCall EXCEPT !.op = "record_trade_result"]
        /\ UNCHANGED <<now, trading_halted, trading_halt_reason, trading_halt_until,
                       blocked_wallets, risk_events>>
        /\ UNCHANGED ledger_vars

\* ---- get_risk_status
GetRiskStatus ==
    /\ last' = [NoCall EXCEPT !.op = "get_risk_status", !.reported_halted = trading_halted]
    /\ UNCHANGED <<now, trading_halted, trading_halt_reason, trading_halt_until,
                   blocked_wallets, wallet_performance, daily_losses, risk_events, recorded>>
    /\ UNCHANGED ledger_vars

\* ---- resume_trading
ResumeTrading ==
    /\ last' = [NoCall EXCEPT !.op = "resume_trading"]
    /\ IF ~trading_halted
       THEN UNCHANGED <<trading_halted, trading_halt_reason, trading_halt_until, risk_events>>
       ELSE /\ trading_halted' = FALSE
            /\ trading_halt_reason' = None
            /\ trading_halt_until' = NoTime
            /\ risk_events' = RecordRiskEvent(risk_events, "TRADING_RESUMED")
    /\ UNCHANGED <<now, blocked_wallets, wallet_performance, daily_losses, recorded>>
    /\ UNCHANGED ledger_vars

\* ---- unblock_wallet
UnblockWallet(wallet_address) ==
    LET addr_lower == Lower(wallet_address)
    IN  /\ last' = [NoCall EXCEPT !.op = "unblock_wallet"]
        /\ IF addr_lower \notin blocked_wallets
           THEN UNCHANGED <<blocked_wallets, wallet_performance, risk_events>>
           ELSE /\ blocked_wallets' = blocked_wallets \ {addr_lower}
                /\ wallet_performance' =
                       IF addr_lower \in DOMAIN wallet_performance
                       THEN [wallet_performance EXCEPT ![addr_lower].is_active = TRUE,
                                                       ![addr_lower].unfollow_reason = None]
                       ELSE wallet_performance
                /\ risk_events' = RecordRiskEvent(risk_events, "WALLET_UNBLOCKED")
        /\ UNCHANGED <<now, trading_halted, trading_halt_reason, trading_halt_until,
                       daily_losses, recorded>>
        /\ UNCHANGED ledger_vars

\* ---- reset_daily_loss: today's entry, if there is one, is stored under
\* yesterday's date
ResetDailyLoss ==
    LET today == Today(now)
        yesterday == today - 1
    IN  /\ daily_losses' =
               IF today \in DOMAIN daily_losses
               THEN [x \in (DOMAIN daily_losses \ {today}) \cup {yesterday} |->
                        IF x = yesterday THEN daily_losses[today] ELSE daily_losses[x]]
               ELSE daily_losses
        /\ last' = [NoCall EXCEPT !.op = "reset_daily_loss"]
        /\ UNCHANGED <<now, trading_halted, trading_halt_reason, trading_halt_until,
                       blocked_wallets, wallet_performance, risk_events, recorded>>
        /\ UNCHANGED ledger_vars

\* ---- the clock
Tick ==
    /\ now + TickHours <= MaxNow
    /\ now' = now + TickHours
    /\ UNCHANGED <<trading_halted, trading_halt_reason, trading_halt_until, blocked_wallets,
                   wallet_performance, daily_losses, risk_events, recorded, last>>
    /\ UNCHANGED ledger_vars

RiskNext ==
    \/ \E w \in WalletInputs, b \in BalanceInputs, a \in AmountInputs, n \in OpenCountInputs :
          CheckTradeAllowed(w, b, a, n) /\ UNCHANGED <<copy_vars, engine_vars, detector_vars, gate_vars, boot_vars, sizing_vars, breaker_vars, watch_vars>>
    \/ \E w \in WalletInputs, p \in PnlInputs : RecordTradeResult(w, p) /\ UNCHANGED <<copy_vars, engine_vars, detector_vars, gate_vars, boot_vars, sizing_vars, breaker_vars, watch_vars>>
    \/ GetRiskStatus /\ UNCHANGED <<copy_vars, engine_vars, detector_vars, gate_vars, boot_vars, sizing_vars, breaker_vars, watch_vars>>
    \/ ResumeTrading /\ UNCHANGED <<copy_vars, engine_vars, detector_vars, gate_vars, boot_vars, sizing_vars, breaker_vars, watch_vars>>
    \/ \E w \in WalletInputs : UnblockWallet(w) /\ UNCHANGED <<copy_vars, engine_vars, detector_vars, gate_vars, boot_vars, sizing_vars, breaker_vars, watch_vars>>
    \/ ResetDailyLoss /\ UNCHANGED <<copy_vars, engine_vars, detector_vars, gate_vars, boot_vars, sizing_vars, breaker_vars, watch_vars>>
    \/ Tick /\ UNCHANGED <<copy_vars, engine_vars, detector_vars, gate_vars, boot_vars, sizing_vars, breaker_vars, watch_vars>>

\* ========================================================== the copy bot
\* PolymarketCopyBot runs on one asyncio event loop: on_trade_detected is the
\* only caller of the risk manager's admission check and of execute_trade,
\* and runs them on the loop's thread.  Trade amounts handed to the risk
\* manager are in 1/1000 USDC.
CopyThread == 1

\* the trades the wallet monitor reports
TradeShareInputs == {10, 100}
TradeEvents ==
    [wallet_address : WalletInputs, market_id : Markets, outcome : Outcomes,
     side : {"BUY", "SELL"}, shares : TradeShareInputs, price : PriceInputs]

\* WalletConfig defaults
copy_percentage == 100
min_trade_size_usdc == 10 * 1000
max_trade_size_usdc == 10000 * 1000

\* self.wallet_monitor.wallets: the configured wallets, by lower-case address
MonitoredWallets == {Lower(w) : w \in TargetWallets}

\* TradeEvent.amount
TradeAmount(trade) == trade.shares * trade.price

\* portfolio["balance"], in 1/1000 USDC
CurrentBalance == balance \div 1000

\* (mutant of CalculatePositionSize: the copied amount is returned uncapped)
CalculatePositionSize_NoCap(original_trade_amount, current_balance, pct) ==
    (original_trade_amount * pct) \div 100

\* RiskManager.calculate_position_size
CalculatePositionSize(original_trade_amount, current_balance, pct) ==
    LET copied_amount == (original_trade_amount * pct) \div 100
        max_position_size == (current_balance * max_position_size_percent) \div 100
    IN  IF copied_amount > max_position_size THEN max_position_size ELSE copied_amount

\* final_shares, after the cap at max_trade_size_usdc
FinalShares(trade) ==
    LET calculated == CalculatePositionSize(TradeAmount(trade), CurrentBalance, copy_percentage)
        final_shares == calculated \div trade.price
    IN  IF final_shares * trade.price > max_trade_size_usdc
        THEN max_trade_size_usdc \div trade.price
        ELSE final_shares

NoTrade ==
    [wallet_address |-> None, market_id |-> None, outcome |-> None, side |-> None,
     shares |-> 0, price |-> 0]

CopyIdle == [stage |-> "idle", trade |-> NoTrade, outcome |-> None, trades_copied |-> 0,
             running |-> TRUE]

CopyInit == copy = CopyIdle

\* on_trade_detected up to the risk check: the returns for an unknown wallet
\* and for a trade under the minimum size, then check_trade_allowed.
OnTradeDetected(trade) ==
    /\ copy.running
    /\ copy.stage = "idle"
    /\ pc[CopyThread] = "idle"
    /\ IF Lower(trade.wallet_address) \notin MonitoredWallets
       THEN /\ copy' = [copy EXCEPT !.outcome = "no_config"]
            /\ UNCHANGED <<ledger_vars, risk_vars>>
       ELSE IF TradeAmount(trade) < min_trade_size_usdc
       THEN /\ copy' = [copy EXCEPT !.outcome = "below_minimum"]
            /\ UNCHANGED <<ledger_vars, risk_vars>>
       ELSE /\ copy' = [copy EXCEPT !.stage = "checked", !.trade = trade, !.outcome = None]
            /\ CheckTradeAllowed(trade.wallet_address, CurrentBalance,
                                 ((trade.shares * copy_percentage) \div 100) * trade.price,
                                 Cardinality(DOMAIN positions))

\* (mutant of CopyAfterCheck: a SELL goes to execute_trade whatever the risk
\* manager answered)
CopyAfterCheck_SellUnchecked ==
    /\ copy.stage = "checked"
    /\ IF last.allowed = "False" /\ copy.trade.side # "SELL"
       THEN /\ copy' = [copy EXCEPT !.stage = "idle", !.trade = NoTrade, !.outcome = "blocked"]
            /\ UNCHANGED <<ledger_vars, risk_vars>>
       ELSE /\ Call(CopyThread)
            /\ copy' = [copy EXCEPT !.stage = "executing"]

\* the return after a rejection by the risk manager, or the call of execute_trade
CopyAfterCheck ==
    /\ copy.stage = "checked"
    /\ IF last.allowed = "False"
       THEN /\ copy' = [copy EXCEPT !.stage = "idle", !.trade = NoTrade, !.outcome = "blocked"]
            /\ UNCHANGED <<ledger_vars, risk_vars>>
       ELSE /\ Call(CopyThread)
            /\ copy' = [copy EXCEPT !.stage = "executing"]

\* the arguments on_trade_detected hands to execute_trade
CopyCall ==
    [market_id |-> copy.trade.market_id, outcome |-> copy.trade.outcome,
     side |-> copy.trade.side, shares |-> FinalShares(copy.trade), price |-> copy.trade.price]

\* execute_trade has returned: trades_copied counts the successes
CopyReturn ==
    /\ copy.stage = "executing"
    /\ pc[CopyThread] = "idle"
    /\ copy' = [copy EXCEPT !.stage = "idle", !.trade = NoTrade,
                            !.outcome = result[CopyThread].ok,
                            !.trades_copied = IF result[CopyThread].ok = "True" THEN @ + 1 ELSE @]
    /\ UNCHANGED <<ledger_vars, risk_vars>>

\* shutdown, run by the event loop between two handlers: it sets running to
\* False and stops the monitor; the ledger is left as it is.
CopyShutdown ==
    /\ copy.running
    /\ copy.stage = "idle"
    /\ copy' = [copy EXCEPT !.running = FALSE]
    /\ UNCHANGED <<ledger_vars, risk_vars>>

CopyNext ==
    \/ \E trade \in TradeEvents : OnTradeDetected(trade) /\ UNCHANGED <<engine_vars, detector_vars, gate_vars, boot_vars, sizing_vars, breaker_vars, watch_vars>>
    \/ CopyAfterCheck /\ UNCHANGED <<engine_vars, detector_vars, gate_vars, boot_vars, sizing_vars, breaker_vars, watch_vars>>
    \/ LockAcquire(CopyThread) /\ copy.stage = "executing" /\ UNCHANGED <<copy_vars, engine_vars, detector_vars, gate_vars, boot_vars, sizing_vars, breaker_vars, watch_vars>>
    \/ \E s \in SlippageDraws :
          Validate(CopyThread, CopyCall, s) /\ copy.stage = "executing" /\ UNCHANGED <<copy_vars, engine_vars, detector_vars, gate_vars, boot_vars, sizing_vars, breaker_vars, watch_vars>>
    \/ ApplyPosition(CopyThread) /\ copy.stage = "executing" /\ UNCHANGED <<copy_vars, engine_vars, detector_vars, gate_vars, boot_vars, sizing_vars, breaker_vars, watch_vars>>
    \/ Commit(CopyThread) /\ copy.stage = "executing" /\ UNCHANGED <<copy_vars, engine_vars, detector_vars, gate_vars, boot_vars, sizing_vars, breaker_vars, watch_vars>>
    \/ CopyReturn /\ UNCHANGED <<engine_vars, detector_vars, gate_vars, boot_vars, sizing_vars, breaker_vars, watch_vars>>
    \/ CopyShutdown /\ UNCHANGED <<engine_vars, detector_vars, gate_vars, boot_vars, sizing_vars, breaker_vars, watch_vars>>

\* the results recorded for copied trades, in 1/1000 USDC: a loss above the
\* daily limit of the ledger's balance, and a gain
CopyPnlInputs == {0 - 60 * 1000, 20 * 1000}

\* The handler together with the risk manager's other operations, which run
\* between two handlers: results are recorded, the operator lifts a halt or a
\* block, and time passes.
GuardedCopyNext ==
    \/ CopyNext
    \/ /\ copy.stage = "idle"
       /\ pc[CopyThread] = "idle"
       /\ \/ \E w \in WalletInputs, p \in CopyPnlInputs : RecordTradeResult(w, p)
          \/ ResumeTrading
          \/ \E w \in WalletInputs : UnblockWallet(w)
          \/ Tick
       /\ UNCHANGED <<copy_vars, engine_vars, detector_vars, gate_vars, boot_vars, sizing_vars, breaker_vars, watch_vars>>

\* ================================================= the paper trading bot
\* PaperTradingBot (bot_paper.py) with its PositionManager
\* (src/position_manager.py), its exit rules (src/risk_manager.py) and its
\* simulated feed and client (src/paper_trading.py).  All of it runs on one
\* asyncio event loop: a task gives way to another only where it awaits
\* something that suspends, which are the sleeps of the feed and of the
\* monitoring loop and the sleep inside place_order.
\* Odds are in 1/1000, money in cents, time in units of 30 seconds.
\* ------------------------------------------------------------------ bounds
MaxClock == 44
MaxOpened == 2
RoundCallbacks == 2
\* TradingConfig.max_positions (5 by default), scaled down
max_positions == 2

ClockSteps == {11, 29}
OddsInputs == {0, 425, 500, 950}
EntryOdds == {500}
CloseOdds == {425}
Directions == {"up", "down"}
PositionIds == 1..MaxOpened

\* ------------------------------------------------- configuration, constants
stop_loss_pct == 15
take_profit_pct == 90
hard_expiry == 40
soft_expiry == 29
position_size_usd == 100 * 100
max_daily_loss == 1000 * 100
emergency_shutdown_loss == 5000 * 100
NoOdds == 0 - 1
LookupFailed == 0 - 2

\* what get_market_odds can give for a position: odds, or no odds (an
\* exception, an unknown market, a missing key)
LookupOutcomes == {425, 950, LookupFailed}

NoOpportunity == [symbol |-> None, direction |-> None, polymarket_market_id |-> None,
                  polymarket_odds |-> 0]

Opportunities ==
    [symbol : {"BTC/USDT"}, direction : {"up"}, polymarket_market_id : {"btc_price_0"},
     polymarket_odds : EntryOdds]

\* Position(...) as open_position creates it
NewPosition(position_id, opportunity, t) ==
    [position_id |-> position_id, symbol |-> opportunity.symbol,
     market_id |-> opportunity.polymarket_market_id, direction |-> opportunity.direction,
     size_usd |-> position_size_usd, entry_price |-> opportunity.polymarket_odds,
     entry_time |-> t, status |-> "OPEN", exit_price |-> NoOdds, exit_time |-> NoTime,
     pnl |-> 0, exit_reason |-> None]

\* ---- RiskManager.should_exit_position: (should_exit, exit_price, reason)
NoExit == [should_exit |-> FALSE, exit_price |-> 0, reason |-> ""]

Exit(current_price, reason) ==
    [should_exit |-> TRUE, exit_price |-> current_price, reason |-> reason]

ShouldExitPosition_TimeFirst(position, current_price, t) ==
    LET unrealized_pnl == current_price - position.entry_price
        time_held == t - position.entry_time
    IN  IF current_price = NoOdds \/ current_price = 0 THEN NoExit
        ELSE IF time_held > hard_expiry THEN Exit(current_price, "market_expired")
        ELSE IF time_held > soft_expiry THEN Exit(current_price, "approaching_expiration")
        ELSE IF unrealized_pnl * 100 <= (0 - stop_loss_pct) * position.entry_price
        THEN Exit(current_price, "stop_loss")
        ELSE IF unrealized_pnl * 100 >= take_profit_pct * position.entry_price
        THEN Exit(current_price, "take_profit")
        ELSE NoExit

ShouldExitPosition(position, current_price, t) ==
    LET unrealized_pnl == current_price - position.entry_price
        time_held == t - position.entry_time
    IN  IF current_price = NoOdds \/ current_price = 0 THEN NoExit
        ELSE IF unrealized_pnl * 100 <= (0 - stop_loss_pct) * position.entry_price
        THEN Exit(current_price, "stop_loss")
        ELSE IF unrealized_pnl * 100 >= take_profit_pct * position.entry_price
        THEN Exit(current_price, "take_profit")
        ELSE IF time_held > hard_expiry THEN Exit(current_price, "market_expired")
        ELSE IF time_held > soft_expiry THEN Exit(current_price, "approaching_expiration")
        ELSE NoExit

\* ---- RiskManager: the daily P&L and the emergency shutdown
Gate == [daily_pnl |-> daily_pnl, last_reset |-> last_reset,
         emergency_shutdown |-> emergency_shutdown]

ResetDailyPnlIfNeeded_ClearsShutdown(g, day) ==
    IF day > g.last_reset
    THEN [g EXCEPT !.daily_pnl = 0, !.last_reset = day, !.emergency_shutdown = FALSE]
    ELSE g

\* _reset_daily_pnl_if_needed
ResetDailyPnlIfNeeded(g, day) ==
    IF day > g.last_reset THEN [g EXCEPT !.daily_pnl = 0, !.last_reset = day] ELSE g

\* can_open_position: the risk manager after the call, and (can_open, reason)
CanOpenPosition(g, position_size, day) ==
    LET r == ResetDailyPnlIfNeeded(g, day)
        remaining_budget == max_daily_loss + r.daily_pnl
    IN  IF r.emergency_shutdown
        THEN [gate |-> r, can_open |-> FALSE, reason |-> "emergency_shutdown_active"]
        ELSE IF r.daily_pnl <= 0 - max_daily_loss
        THEN [gate |-> r, can_open |-> FALSE, reason |-> "daily_loss_limit_reached"]
        ELSE IF position_size > remaining_budget
        THEN [gate |-> r, can_open |-> FALSE, reason |-> "insufficient_risk_budget"]
        ELSE [gate |-> r, can_open |-> TRUE, reason |-> ""]

\* update_daily_pnl
UpdateDailyPnl(g, pnl, day) ==
    LET r == ResetDailyPnlIfNeeded(g, day)
        total == r.daily_pnl + pnl
    IN  [r EXCEPT !.daily_pnl = total,
                  !.emergency_shutdown = IF total <= 0 - emergency_shutdown_loss THEN TRUE
                                         ELSE @]

\* ---- PositionManager
Book ==
    [positions |-> pm_positions, closed_positions |-> closed_positions,
     total_pnl |-> total_pnl, win_count |-> win_count, loss_count |-> loss_count]

\* the P&L close_position computes
ClosePnl(position, exit_price) ==
    IF position.entry_price > 0
    THEN (position.size_usd * (exit_price - position.entry_price)) \div position.entry_price
    ELSE 0

Without(f, x) == [y \in DOMAIN f \ {x} |-> f[y]]

ClosePosition_ClosesAgain(book, position_id, exit_price, reason, t) ==
    LET known == position_id \in DOMAIN book.positions
        found == \E i \in DOMAIN book.closed_positions :
                    book.closed_positions[i].position_id = position_id
    IN  IF ~known /\ ~found THEN [book |-> book, ret |-> FALSE]
        ELSE LET position == IF known THEN book.positions[position_id]
                             ELSE book.closed_positions[
                                      CHOOSE i \in DOMAIN book.closed_positions :
                                          book.closed_positions[i].position_id = position_id]
                 pnl == ClosePnl(position, exit_price)
                 closed == [position EXCEPT !.exit_price = exit_price, !.exit_time = t,
                                            !.pnl = pnl, !.exit_reason = reason,
                                            !.status = "CLOSED"]
             IN  [book |-> [positions |-> IF known THEN Without(book.positions, position_id)
                                          ELSE book.positions,
                            closed_positions |-> Append(book.closed_positions, closed),
                            total_pnl |-> book.total_pnl + pnl,
                            win_count |-> IF pnl > 0 THEN book.win_count + 1 ELSE book.win_count,
                            loss_count |-> IF pnl > 0 THEN book.loss_count
                                           ELSE book.loss_count + 1],
                  ret |-> TRUE]

ClosePosition_BreakEvenUncounted(book, position_id, exit_price, reason, t) ==
    IF position_id \notin DOMAIN book.positions THEN [book |-> book, ret |-> FALSE]
    ELSE IF book.positions[position_id].status # "OPEN" THEN [book |-> book, ret |-> FALSE]
    ELSE LET position == book.positions[position_id]
             pnl == ClosePnl(position, exit_price)
             closed == [position EXCEPT !.exit_price = exit_price, !.exit_time = t,
                                        !.pnl = pnl, !.exit_reason = reason,
                                        !.status = "CLOSED"]
         IN  [book |-> [positions |-> Without(book.positions, position_id),
                        closed_positions |-> Append(book.closed_positions, closed),
                        total_pnl |-> book.total_pnl + pnl,
                        win_count |-> IF pnl > 0 THEN book.win_count + 1 ELSE book.win_count,
                        loss_count |-> IF pnl < 0 THEN book.loss_count + 1
                                       ELSE book.loss_count],
              ret |-> TRUE]

ClosePosition_KeepsEntry(book, position_id, exit_price, reason, t) ==
    IF position_id \notin DOMAIN book.positions THEN [book |-> book, ret |-> FALSE]
    ELSE IF book.positions[position_id].status # "OPEN" THEN [book |-> book, ret |-> FALSE]
    ELSE LET position == book.positions[position_id]
             pnl == ClosePnl(position, exit_price)
             closed == [position EXCEPT !.exit_price = exit_price, !.exit_time = t,
                                        !.pnl = pnl, !.exit_reason = reason,
                                        !.status = "CLOSED"]
         IN  [book |-> [positions |-> [book.positions EXCEPT ![position_id] = closed],
                        closed_positions |-> Append(book.closed_positions, closed),
                        total_pnl |-> book.total_pnl + pnl,
                        win_count |-> IF pnl > 0 THEN book.win_count + 1 ELSE book.win_count,
                        loss_count |-> IF pnl > 0 THEN book.loss_count
                                       ELSE book.loss_count + 1],
              ret |-> TRUE]

\* close_position: the book after the call, and the call's return
ClosePosition(book, position_id, exit_price, reason, t) ==
    IF position_id \notin DOMAIN book.positions THEN [book |-> book, ret |-> FALSE]
    ELSE IF book.positions[position_id].status # "OPEN" THEN [book |-> book, ret |-> FALSE]
    ELSE LET position == book.positions[position_id]
             pnl == ClosePnl(position, exit_price)
             closed == [position EXCEPT !.exit_price = exit_price, !.exit_time = t,
                                        !.pnl = pnl, !.exit_reason = reason,
                                        !.status = "CLOSED"]
         IN  [book |-> [positions |-> Without(book.positions, position_id),
                        closed_positions |-> Append(book.closed_positions, closed),
                        total_pnl |-> book.total_pnl + pnl,
                        win_count |-> IF pnl > 0 THEN book.win_count + 1 ELSE book.win_count,
                        loss_count |-> IF pnl > 0 THEN book.loss_count
                                       ELSE book.loss_count + 1],
              ret |-> TRUE]

\* list(self.positions.items()): the ids in the order of their insertion
RECURSIVE OpenIds(_, _)
OpenIds(ps, n) ==
    IF n > MaxOpened + 1 THEN << >>
    ELSE (IF n \in DOMAIN ps THEN <<n>> ELSE << >>) \o OpenIds(ps, n + 1)

\* (mutant of CurrentOdds: a failed lookup leaves the price missing)
CurrentOdds_NoFallback(position, outcome) ==
    IF outcome = LookupFailed THEN NoOdds ELSE outcome

\* the odds the exit check and stop() use for a position: the entry price
\* when the lookup gave nothing
CurrentOdds(position, outcome) ==
    IF outcome = LookupFailed THEN position.entry_price ELSE outcome

\* what one pass of check_position_exits over the open positions leaves
RECURSIVE ExitLoop(_, _, _, _)
ExitLoop(book, ids, lookup, t) ==
    IF ids = << >> THEN book
    ELSE LET position_id == Head(ids)
             position == book.positions[position_id]
             d == ShouldExitPosition(position, CurrentOdds(position, lookup[position_id]), t)
             after == IF d.should_exit
                      THEN ClosePosition(book, position_id, d.exit_price, d.reason, t).book
                      ELSE book
         IN  ExitLoop(after, Tail(ids), lookup, t)

\* what the closing loop of stop() leaves
RECURSIVE StopLoop(_, _, _, _)
StopLoop(book, ids, lookup, t) ==
    IF ids = << >> THEN book
    ELSE LET position_id == Head(ids)
             position == book.positions[position_id]
             after == ClosePosition(book, position_id,
                                    CurrentOdds(position, lookup[position_id]), "shutdown", t).book
         IN  StopLoop(after, Tail(ids), lookup, t)

Lookups == [DOMAIN pm_positions -> LookupOutcomes]

SetBook(book) ==
    /\ pm_positions' = book.positions
    /\ closed_positions' = book.closed_positions
    /\ total_pnl' = book.total_pnl
    /\ win_count' = book.win_count
    /\ loss_count' = book.loss_count

NoCloseCall == [position_id |-> 0, ret |-> FALSE]

EngineInit ==
    /\ clock = 0
    /\ pm_positions = [x \in {} |-> None]
    /\ closed_positions = << >>
    /\ total_pnl = 0
    /\ win_count = 0
    /\ loss_count = 0
    /\ running = FALSE
    /\ feed_running = FALSE
    /\ gen = [pc |-> "not_started", left |-> 0, opportunity |-> NoOpportunity]
    /\ mon = "not_started"
    /\ next_id = 0
    /\ close_ret = NoCloseCall

\* start(): running is set, the feed creates its task, the monitoring loop begins
Start ==
    /\ mon = "not_started"
    /\ running' = TRUE
    /\ feed_running' = TRUE
    /\ gen' = [gen EXCEPT !.pc = "sleeping"]
    /\ mon' = "sleeping"
    /\ UNCHANGED <<clock, pm_positions, closed_positions, total_pnl, win_count, loss_count,
                   next_id, close_ret>>

\* _generate_prices wakes from its sleep: "while self.running" is tested
\* here, and only here; a round calls the callback for every symbol
GenWake ==
    /\ gen.pc = "sleeping"
    /\ gen' = IF feed_running THEN [gen EXCEPT !.pc = "round", !.left = RoundCallbacks]
              ELSE [gen EXCEPT !.pc = "done"]
    /\ UNCHANGED <<clock, pm_positions, closed_positions, total_pnl, win_count, loss_count,
                   running, feed_running, mon, next_id, close_ret>>

\* _on_price_update for one market and direction: the detector returns
\* nothing or an opportunity; _handle_opportunity asks can_open_position and
\* calls open_position, which tests max_positions and awaits place_order
GenCallback(opportunity) ==
    /\ gen.pc = "round"
    /\ gen.left > 0
    /\ next_id >= MaxOpened => opportunity = NoOpportunity
    /\ IF \/ opportunity = NoOpportunity
          \/ ~CanOpenPosition(Gate, position_size_usd, date).can_open
          \/ Cardinality(DOMAIN pm_positions) >= max_positions
       THEN gen' = [gen EXCEPT !.left = @ - 1]
       ELSE gen' = [gen EXCEPT !.pc = "placing", !.opportunity = opportunity]
    /\ UNCHANGED <<clock, pm_positions, closed_positions, total_pnl, win_count, loss_count,
                   running, feed_running, mon, next_id, close_ret>>

\* the round is over: the task sleeps
GenRoundEnd ==
    /\ gen.pc = "round"
    /\ gen.left = 0
    /\ gen' = [gen EXCEPT !.pc = "sleeping"]
    /\ UNCHANGED <<clock, pm_positions, closed_positions, total_pnl, win_count, loss_count,
                   running, feed_running, mon, next_id, close_ret>>

\* place_order returns: without an order id open_position gives up, with one
\* it creates the position and stores it
OrderPlaced(filled) ==
    /\ gen.pc = "placing"
    /\ IF filled
       THEN /\ pm_positions' =
                   [x \in DOMAIN pm_positions \cup {next_id + 1} |->
                       IF x = next_id + 1 THEN NewPosition(x, gen.opportunity, clock)
                       ELSE pm_positions[x]]
            /\ next_id' = next_id + 1
       ELSE UNCHANGED <<pm_positions, next_id>>
    /\ gen' = [gen EXCEPT !.pc = "round", !.left = @ - 1, !.opportunity = NoOpportunity]
    /\ UNCHANGED <<clock, closed_positions, total_pnl, win_count, loss_count,
                   running, feed_running, mon, close_ret>>

\* one pass of the monitoring loop: check_position_exits
MonitorCycle(lookup) ==
    /\ mon = "sleeping"
    /\ running
    /\ SetBook(ExitLoop(Book, OpenIds(pm_positions, 1), lookup, clock))
    /\ UNCHANGED <<clock, running, feed_running, gen, mon, next_id, close_ret>>

\* stop(), as the task the signal handler creates: it suspends nowhere
SignalStop(lookup) ==
    /\ mon = "sleeping"
    /\ running' = FALSE
    /\ feed_running' = FALSE
    /\ SetBook(StopLoop(Book, OpenIds(pm_positions, 1), lookup, clock))
    /\ UNCHANGED <<clock, gen, mon, next_id, close_ret>>

\* the monitoring loop finds running False: start() returns, main() runs
\* stop() in its finally clause and returns, and asyncio.run cancels the
\* feed's task where it is suspended
MainExit(lookup) ==
    /\ mon = "sleeping"
    /\ ~running
    /\ feed_running' = FALSE
    /\ SetBook(StopLoop(Book, OpenIds(pm_positions, 1), lookup, clock))
    /\ mon' = "exited"
    /\ gen' = [gen EXCEPT !.pc = IF @ = "done" THEN @ ELSE "cancelled"]
    /\ UNCHANGED <<clock, running, next_id, close_ret>>

\* a call of close_position from outside the loops, for any position id
CloseCall(position_id, exit_price) ==
    /\ mon # "exited"
    /\ LET r == ClosePosition(Book, position_id, exit_price, "manual", clock)
       IN  /\ SetBook(r.book)
           /\ close_ret' = [position_id |-> position_id, ret |-> r.ret]
    /\ UNCHANGED <<clock, running, feed_running, gen, mon, next_id>>

\* time passes
ClockTick(d) ==
    /\ mon = "sleeping"
    /\ clock + d <= MaxClock
    /\ clock' = clock + d
    /\ UNCHANGED <<pm_positions, closed_positions, total_pnl, win_count, loss_count,
                   running, feed_running, gen, mon, next_id, close_ret>>

others_engine == <<ledger_vars, risk_vars, copy_vars, detector_vars, gate_vars, boot_vars, sizing_vars, breaker_vars, watch_vars>>

EngineNext ==
    \/ Start /\ UNCHANGED others_engine
    \/ GenWake /\ UNCHANGED others_engine
    \/ \E o \in Opportunities \cup {NoOpportunity} : GenCallback(o) /\ UNCHANGED others_engine
    \/ GenRoundEnd /\ UNCHANGED others_engine
    \/ \E filled \in BOOLEAN : OrderPlaced(filled) /\ UNCHANGED others_engine
    \/ \E lookup \in Lookups : MonitorCycle(lookup) /\ UNCHANGED others_engine
    \/ \E lookup \in Lookups : SignalStop(lookup) /\ UNCHANGED others_engine
    \/ \E lookup \in Lookups : MainExit(lookup) /\ UNCHANGED others_engine
    \/ \E i \in PositionIds, x \in CloseOdds : CloseCall(i, x) /\ UNCHANGED others_engine
    \/ \E d \in ClockSteps : ClockTick(d) /\ UNCHANGED others_engine

\* the bot while its monitoring loop keeps running: no stop() is called
MonitoringNext ==
    \/ Start /\ UNCHANGED others_engine
    \/ GenWake /\ UNCHANGED others_engine
    \/ \E o \in Opportunities \cup {NoOpportunity} : GenCallback(o) /\ UNCHANGED others_engine
    \/ GenRoundEnd /\ UNCHANGED others_engine
    \/ \E filled \in BOOLEAN : OrderPlaced(filled) /\ UNCHANGED others_engine
    \/ \E lookup \in Lookups : MonitorCycle(lookup) /\ UNCHANGED others_engine
    \/ \E d \in ClockSteps : ClockTick(d) /\ UNCHANGED others_engine

\* ====================================================== the watcher tasks
\* ExchangeMonitor.start creates one _watch_ticker task per symbol; each
\* awaits the bot's callback, which for an opportunity asks can_open_position
\* and awaits open_position (src/bot.py). open_position tests max_positions,
\* awaits place_order and then inserts the position.
MaxWatchOpened == 3

WatchSymbols == {"BTC/USDT", "ETH/USDT"}

WatchOpportunity(symbol) ==
    [symbol |-> symbol, direction |-> "up",
     polymarket_market_id |-> IF symbol = "BTC/USDT" THEN "btc_price_0" ELSE "eth_price_0",
     polymarket_odds |-> 500]

WatchInit == watch = [symbol \in WatchSymbols |-> [pc |-> "waiting", opportunity |-> NoOpportunity]]

\* a ticker arrives and the callback runs up to its first suspension
WatchCallback(symbol, found) ==
    /\ running
    /\ watch[symbol].pc = "waiting"
    /\ next_id < MaxWatchOpened
    /\ IF \/ ~found
          \/ ~CanOpenPosition(Gate, position_size_usd, date).can_open
          \/ Cardinality(DOMAIN pm_positions) >= max_positions
       THEN UNCHANGED watch
       ELSE watch' = [watch EXCEPT ![symbol] =
                        [pc |-> "placing", opportunity |-> WatchOpportunity(symbol)]]
    /\ UNCHANGED engine_vars

\* place_order returns to the task that awaited it
WatchOrderPlaced(symbol, filled) ==
    /\ watch[symbol].pc = "placing"
    /\ IF filled
       THEN /\ pm_positions' =
                   [x \in DOMAIN pm_positions \cup {next_id + 1} |->
                       IF x = next_id + 1
                       THEN NewPosition(x, watch[symbol].opportunity, clock)
                       ELSE pm_positions[x]]
            /\ next_id' = next_id + 1
       ELSE UNCHANGED <<pm_positions, next_id>>
    /\ watch' = [watch EXCEPT ![symbol] = [pc |-> "waiting", opportunity |-> NoOpportunity]]
    /\ UNCHANGED <<clock, closed_positions, total_pnl, win_count, loss_count,
                   running, feed_running, gen, mon, close_ret>>

others_watch == <<ledger_vars, risk_vars, copy_vars, detector_vars, gate_vars, boot_vars,
                  sizing_vars, breaker_vars>>

WatchNext ==
    \/ Start /\ UNCHANGED <<others_watch, watch>>
    \/ \E symbol \in WatchSymbols, found \in BOOLEAN :
          WatchCallback(symbol, found) /\ UNCHANGED others_watch
    \/ \E symbol \in WatchSymbols, filled \in BOOLEAN :
          WatchOrderPlaced(symbol, filled) /\ UNCHANGED others_watch
    \/ \E lookup \in Lookups : MonitorCycle(lookup) /\ UNCHANGED <<others_watch, watch>>
    \/ \E d \in ClockSteps : ClockTick(d) /\ UNCHANGED <<others_watch, watch>>

\* ============================================================ the detector
\* ArbitrageDetector of src/src/arbitrage_detector.py. Exchange prices are
\* whole dollars, odds are in 1/1000, price changes, divergence, profit and
\* confidence are in millionths, time is in seconds.
MaxDetNow == 60
HistoryMaxLen == 4

Symbols == {"BTC/USDT"}
DetMarkets == <<"btc_price_0", "btc_price_1">>
ExchangePrices == {0, 100, 120}
DetOddsInputs == {500, 900}
DetSteps == {20, 40}
SpikeWindows == {10, 20}

spike_threshold == 15000
min_profit_threshold == 20000
price_history_window == 30
opportunity_cooldown == 60
spike_window == 10
fees == 20000

Abs(x) == IF x < 0 THEN 0 - x ELSE x

PriceSnapshot(t, price) == [timestamp |-> t, price |-> price]

\* _cleanup_old_prices without its loop
CleanupOldPrices_KeepsAll(history, t) == history

\* _cleanup_old_prices: pops from the left while the oldest is too old
RECURSIVE CleanupOldPrices(_, _)
CleanupOldPrices(history, t) ==
    IF history # << >> /\ Head(history).timestamp < t - price_history_window
    THEN CleanupOldPrices(Tail(history), t)
    ELSE history

\* update_price: the append to the deque(maxlen), then the cleanup
UpdatePrice(history, price, t) ==
    LET appended == Append(history, PriceSnapshot(t, price))
        kept == IF Len(appended) > HistoryMaxLen THEN Tail(appended) ELSE appended
    IN  CleanupOldPrices(kept, t)

NoSpike == [detected |-> FALSE, direction |-> None, price_change_pct |-> 0,
            baseline_price |-> 0]

DetectSpike_ZeroBaseline(history, current_price, window_seconds, t) ==
    IF Len(history) < 2 THEN NoSpike
    ELSE LET Inside(snapshot) == snapshot.timestamp >= t - window_seconds
             inside == SelectSeq(history, Inside)
         IN  IF inside = << >> THEN NoSpike
             ELSE IF Head(inside).price = 0
             THEN [detected |-> TRUE, direction |-> "up", price_change_pct |-> 1000000,
                   baseline_price |-> 0]
             ELSE LET baseline_price == Head(inside).price
                      price_change ==
                          IF current_price >= baseline_price
                          THEN ((current_price - baseline_price) * 1000000) \div baseline_price
                          ELSE 0 - (((baseline_price - current_price) * 1000000)
                                       \div baseline_price)
                  IN  IF Abs(price_change) >= spike_threshold
                      THEN [detected |-> TRUE,
                            direction |-> IF price_change > 0 THEN "up" ELSE "down",
                            price_change_pct |-> price_change,
                            baseline_price |-> baseline_price]
                      ELSE NoSpike

\* detect_spike: the baseline is the oldest snapshot inside the window
DetectSpike(history, current_price, window_seconds, t) ==
    IF Len(history) < 2 THEN NoSpike
    ELSE LET Inside(snapshot) == snapshot.timestamp >= t - window_seconds
             inside == SelectSeq(history, Inside)
         IN  IF inside = << >> THEN NoSpike
             ELSE IF Head(inside).price = 0 THEN NoSpike
             ELSE LET baseline_price == Head(inside).price
                      price_change ==
                          IF current_price >= baseline_price
                          THEN ((current_price - baseline_price) * 1000000) \div baseline_price
                          ELSE 0 - (((baseline_price - current_price) * 1000000)
                                       \div baseline_price)
                  IN  IF Abs(price_change) >= spike_threshold
                      THEN [detected |-> TRUE,
                            direction |-> IF price_change > 0 THEN "up" ELSE "down",
                            price_change_pct |-> price_change,
                            baseline_price |-> baseline_price]
                      ELSE NoSpike

CalculateSpikeDivergence(spike_pct, polymarket_odds, direction) ==
    IF direction = "up" THEN (Abs(spike_pct) * (1000 - polymarket_odds)) \div 1000
    ELSE (Abs(spike_pct) * polymarket_odds) \div 1000

\* (mutant of EstimateProfit: the fee is left out)
EstimateProfit_NoFees(divergence, odds) ==
    LET expected_profit == (Abs(divergence) * (1000 - odds)) \div 1000
    IN  IF expected_profit > 0 THEN expected_profit ELSE 0

EstimateProfit(divergence, odds) ==
    LET expected_profit == (Abs(divergence) * (1000 - odds)) \div 1000 - fees
    IN  IF expected_profit > 0 THEN expected_profit ELSE 0

CalculateConfidence(divergence, odds) ==
    LET divergence_score == IF Abs(divergence) * 5 < 1000000 THEN Abs(divergence) * 5
                            ELSE 1000000
        odds_confidence == Abs(odds - 500) * 2 * 1000
    IN  (divergence_score * 7 + odds_confidence * 3) \div 10

IsDuplicateOpportunity_NoCooldownEnd(recent_list, opportunity, t) ==
    \E i \in DOMAIN recent_list :
        /\ recent_list[i].polymarket_market_id = opportunity.polymarket_market_id
        /\ recent_list[i].direction = opportunity.direction

IsDuplicateOpportunity(recent_list, opportunity, t) ==
    \E i \in DOMAIN recent_list :
        /\ recent_list[i].polymarket_market_id = opportunity.polymarket_market_id
        /\ recent_list[i].direction = opportunity.direction
        /\ t - recent_list[i].timestamp < opportunity_cooldown

CleanupOldOpportunities(recent_list, t) ==
    LET Young(opp) == opp.timestamp > t - opportunity_cooldown * 2
    IN  SelectSeq(recent_list, Young)

Detector == [price_history |-> price_history, recent_opportunities |-> recent_opportunities]

\* detect_opportunity: the detector after the call and what the call returns
\* (a sequence, empty for None, that names the market and direction of the
\* opportunity returned, which is the one appended to recent_opportunities)
DetectOpportunity(d, symbol, exchange_price, market_id, polymarket_odds, direction, t) ==
    LET history == UpdatePrice(d.price_history[symbol], exchange_price, t)
        updated == [d EXCEPT !.price_history[symbol] = history]
        spike_info == DetectSpike(history, exchange_price, spike_window, t)
        divergence == CalculateSpikeDivergence(spike_info.price_change_pct, polymarket_odds,
                                               direction)
        expected_profit == EstimateProfit(divergence, polymarket_odds)
        opportunity == [symbol |-> symbol, exchange_price |-> exchange_price,
                        polymarket_market_id |-> market_id,
                        polymarket_odds |-> polymarket_odds, divergence |-> divergence,
                        direction |-> direction,
                        confidence |-> CalculateConfidence(divergence, polymarket_odds),
                        timestamp |-> t, expected_profit |-> expected_profit]
        nothing == [detector |-> updated, ret |-> << >>]
        returned == [polymarket_market_id |-> market_id, direction |-> direction]
    IN  IF ~spike_info.detected THEN nothing
        ELSE IF spike_info.direction # direction THEN nothing
        ELSE IF Abs(divergence) * 2 < spike_threshold THEN nothing
        ELSE IF expected_profit < min_profit_threshold THEN nothing
        ELSE IF IsDuplicateOpportunity(d.recent_opportunities, opportunity, t) THEN nothing
        ELSE [detector |-> [updated EXCEPT !.recent_opportunities =
                               CleanupOldOpportunities(Append(@, opportunity), t)],
              ret |-> <<returned>>]

\* _on_price_update: for every market of the symbol the call for "up" with
\* the yes odds, then the call for "down" with the no odds
RECURSIVE OnPriceUpdate(_, _, _, _, _, _)
OnPriceUpdate(d, symbol, price, yes_odds, i, t) ==
    IF i > Len(DetMarkets) THEN [detector |-> d, ret |-> << >>]
    ELSE LET up == DetectOpportunity(d, symbol, price, DetMarkets[i], yes_odds[i], "up", t)
             down == DetectOpportunity(up.detector, symbol, price, DetMarkets[i],
                                       1000 - yes_odds[i], "down", t)
             rest == OnPriceUpdate(down.detector, symbol, price, yes_odds, i + 1, t)
         IN  [detector |-> rest.detector, ret |-> up.ret \o down.ret \o rest.ret]

SetDetector(r) ==
    /\ price_history' = r.detector.price_history
    /\ recent_opportunities' = r.detector.recent_opportunities
    /\ det_ret' = r.ret

DetectorInit ==
    /\ dnow = 0
    /\ price_history = [symbol \in Symbols |-> << >>]
    /\ recent_opportunities = << >>
    /\ det_ret = << >>

\* a price update handled by the bot
PriceUpdate(symbol, price, yes_odds) ==
    /\ SetDetector(OnPriceUpdate(Detector, symbol, price, yes_odds, 1, dnow))
    /\ UNCHANGED dnow

\* time passes
DetTick(d) ==
    /\ dnow + d <= MaxDetNow
    /\ dnow' = dnow + d
    /\ UNCHANGED <<price_history, recent_opportunities, det_ret>>

\* detect_opportunity called directly, as the tests do
CallOdds == {500, 600, 970}
CallPrices == {100, 120}
CallMarket == DetMarkets[1]

DetectOpportunityCall(symbol, price, market_id, odds, direction) ==
    /\ SetDetector(DetectOpportunity(Detector, symbol, price, market_id, odds, direction, dnow))
    /\ UNCHANGED dnow

others_detector == <<ledger_vars, risk_vars, copy_vars, engine_vars, gate_vars, boot_vars, sizing_vars, breaker_vars, watch_vars>>

DetectorNext ==
    \/ \E symbol \in Symbols, price \in ExchangePrices,
          yes_odds \in [DOMAIN DetMarkets -> DetOddsInputs] :
          PriceUpdate(symbol, price, yes_odds) /\ UNCHANGED others_detector
    \/ \E d \in DetSteps : DetTick(d) /\ UNCHANGED others_detector

DetectCallNext ==
    \/ \E symbol \in Symbols, price \in CallPrices, odds \in CallOdds,
          direction \in Directions :
          DetectOpportunityCall(symbol, price, CallMarket, odds, direction)
              /\ UNCHANGED others_detector
    \/ \E d \in DetSteps : DetTick(d) /\ UNCHANGED others_detector

\* ===================================================== the bot's risk manager
\* RiskManager of src/src/risk_manager.py, called on its own. Money is in
\* cents. The arbitrage bot itself only calls can_open_position, within one
\* day, so in its runs this risk manager stays as constructed.
MaxDay == 2
MaxAbsPnl == 600000

GateSizes == {10000, 20000}
GatePnlInputs == {0 - 550000, 0 - 90000, 0 - 10000, 60000}

NoGateCall == [op |-> "none", position_size |-> 0, can_open |-> FALSE, reason |-> ""]

SetGate(g) ==
    /\ daily_pnl' = g.daily_pnl
    /\ last_reset' = g.last_reset
    /\ emergency_shutdown' = g.emergency_shutdown

GateInit ==
    /\ date = 0
    /\ daily_pnl = 0
    /\ last_reset = 0
    /\ emergency_shutdown = FALSE
    /\ gate_ret = NoGateCall

CanOpenPositionCall(position_size) ==
    LET r == CanOpenPosition(Gate, position_size, date)
    IN  /\ SetGate(r.gate)
        /\ gate_ret' = [op |-> "can_open_position", position_size |-> position_size,
                        can_open |-> r.can_open, reason |-> r.reason]
        /\ UNCHANGED date

UpdateDailyPnlCall(pnl) ==
    /\ Abs(ResetDailyPnlIfNeeded(Gate, date).daily_pnl + pnl) <= MaxAbsPnl
    /\ SetGate(UpdateDailyPnl(Gate, pnl, date))
    /\ gate_ret' = [NoGateCall EXCEPT !.op = "update_daily_pnl"]
    /\ UNCHANGED date

\* get_risk_status resets the daily P&L on a new day
GateStatus ==
    /\ SetGate(ResetDailyPnlIfNeeded(Gate, date))
    /\ gate_ret' = [NoGateCall EXCEPT !.op = "get_risk_status"]
    /\ UNCHANGED date

ResetEmergencyShutdown ==
    /\ emergency_shutdown' = FALSE
    /\ gate_ret' = [NoGateCall EXCEPT !.op = "reset_emergency_shutdown"]
    /\ UNCHANGED <<date, daily_pnl, last_reset>>

\* midnight passes
NextDay ==
    /\ date < MaxDay
    /\ date' = date + 1
    /\ UNCHANGED <<daily_pnl, last_reset, emergency_shutdown, gate_ret>>

others_gate == <<ledger_vars, risk_vars, copy_vars, engine_vars, detector_vars, boot_vars, sizing_vars, breaker_vars, watch_vars>>

GateNext ==
    \/ \E position_size \in GateSizes :
          CanOpenPositionCall(position_size) /\ UNCHANGED others_gate
    \/ \E pnl \in GatePnlInputs : UpdateDailyPnlCall(pnl) /\ UNCHANGED others_gate
    \/ GateStatus /\ UNCHANGED others_gate
    \/ ResetEmergencyShutdown /\ UNCHANGED others_gate
    \/ NextDay /\ UNCHANGED others_gate

\* ================================================ a start on the database
\* PaperTrader.__init__ on a database that an earlier run left, or that was
\* damaged since; the process can stop at any point and a new PaperTrader
\* be constructed on the same database.
MaxStarts == 2
TradeLoadLimit == 1000
StartThread == 1

KeepFirst(seq, cap) == IF Len(seq) > cap THEN SubSeq(seq, 1, cap) ELSE seq

\* _load_state: the ledger read from the state, positions and trades tables;
\* without a balance row the balance stays the initial balance
LoadState(state, trades) ==
    [balance |-> IF state.balance = << >> THEN initial_balance ELSE state.balance[1],
     positions |-> state.positions,
     trade_history |-> KeepFirst(Reverse(trades), TradeLoadLimit)]

\* the database a run leaves that ended with ledger led saved
Database(led) ==
    [state |-> IF led = FreshLedger THEN EmptyDatabase
               ELSE [balance |-> <<led.balance>>, positions |-> led.positions],
     trades |-> Reverse(led.trade_history)]

\* damaged databases: a negative stored balance; a stored position without
\* any trade
NegativeBalance ==
    [state |-> [balance |-> <<0 - 1>>, positions |-> EmptyPositions], trades |-> << >>]

OrphanedPosition ==
    [state |-> [balance |-> <<initial_balance>>,
                positions |-> StoredFill(FreshLedger, "m1").positions],
     trades |-> << >>]

StoredDatabases ==
    {Database(led) : led \in StoredLedgers} \cup {NegativeBalance, OrphanedPosition}

\* in the other specifications the PaperTrader is constructed already
BootInit == boot = [starts |-> 1, running |-> TRUE]

\* before the first construction; self.balance, self.positions and
\* self.trade_history are what __init__ assigns before _load_state
RestartInit ==
    /\ \E db \in StoredDatabases :
           /\ db_state = db.state
           /\ db_trades = db.trades
    /\ balance = initial_balance
    /\ positions = EmptyPositions
    /\ trade_history = << >>
    /\ serial = FreshLedger
    /\ lock = NoThread
    /\ pc = [t \in Threads |-> "idle"]
    /\ call = [t \in Threads |-> NoArguments]
    /\ loc = [t \in Threads |-> None]
    /\ result = [t \in Threads |-> NoResult]
    /\ boot = [starts |-> 0, running |-> FALSE]

\* PaperTrader(config, db_path): a new process, a new lock, the ledger loaded
NewPaperTrader ==
    /\ boot.starts < MaxStarts
    /\ LET led == LoadState(db_state, db_trades)
       IN  /\ balance' = led.balance
           /\ positions' = led.positions
           /\ trade_history' = led.trade_history
           /\ serial' = led
    /\ lock' = NoThread
    /\ pc' = [t \in Threads |-> "idle"]
    /\ call' = [t \in Threads |-> NoArguments]
    /\ loc' = [t \in Threads |-> None]
    /\ result' = [t \in Threads |-> NoResult]
    /\ boot' = [starts |-> boot.starts + 1, running |-> TRUE]
    /\ UNCHANGED <<db_trades, db_state>>
    /\ UNCHANGED risk_vars

others_boot == <<copy_vars, engine_vars, detector_vars, gate_vars, sizing_vars, breaker_vars, watch_vars>>

RestartNext ==
    \/ NewPaperTrader /\ UNCHANGED others_boot
    \/ boot.running /\ Call(StartThread) /\ UNCHANGED <<others_boot, boot_vars>>
    \/ boot.running /\ LockAcquire(StartThread) /\ UNCHANGED <<others_boot, boot_vars>>
    \/ \E c \in Calls, s \in SlippageDraws :
          boot.running /\ Validate(StartThread, c, s) /\ UNCHANGED <<others_boot, boot_vars>>
    \/ boot.running /\ ApplyPosition(StartThread) /\ UNCHANGED <<others_boot, boot_vars>>
    \/ boot.running /\ Commit(StartThread) /\ UNCHANGED <<others_boot, boot_vars>>

\* ================================================ the position size alone
\* RiskManager.calculate_position_size called with any arguments; amounts
\* are in 1/1000 USDC.
SizingAmounts == {0 - 1000, 0, 1000, 400000, 500000, 1000000}
SizingBalances == {0 - 100000, 0, 4000000, 10000000, 10000010}
SizingPercents == {0, 50, 100, 200}

NoSizing == [original_trade_amount |-> 0, current_balance |-> 0, copy_percentage |-> 0,
             ret |-> 0, called |-> FALSE]

SizingInit == sizing = NoSizing

CalculatePositionSizeCall(original_trade_amount, current_balance, pct) ==
    sizing' = [original_trade_amount |-> original_trade_amount,
               current_balance |-> current_balance, copy_percentage |-> pct,
               ret |-> CalculatePositionSize(original_trade_amount, current_balance, pct),
               called |-> TRUE]

others_sizing == <<ledger_vars, risk_vars, copy_vars, engine_vars, detector_vars, gate_vars,
                   boot_vars, breaker_vars, watch_vars>>

SizingNext ==
    \E a \in SizingAmounts, b \in SizingBalances, pct \in SizingPercents :
        CalculatePositionSizeCall(a, b, pct) /\ UNCHANGED others_sizing

\* ======================================================= the circuit breaker
\* CircuitBreaker of src/src/safety.py, called on its own. Time is in seconds.
MaxBreakerNow == 900
MaxFailures == 7

failure_threshold == 5
timeout_seconds == 300

BreakerSteps == {100, 200}

NewBreaker == [state |-> "closed", failure_count |-> 0, last_failure_time |-> NoTime,
               opened_at |-> NoTime]

\* record_success
RecordSuccess(b) ==
    LET closed == IF b.state = "half_open"
                  THEN [b EXCEPT !.state = "closed", !.failure_count = 0]
                  ELSE b
    IN  [closed EXCEPT !.failure_count = IF @ - 1 > 0 THEN @ - 1 ELSE 0]

\* record_failure
RecordFailure(b, t) ==
    LET counted == [b EXCEPT !.failure_count = @ + 1, !.last_failure_time = t]
    IN  IF counted.failure_count >= failure_threshold /\ counted.state = "closed"
        THEN [counted EXCEPT !.state = "open", !.opened_at = t]
        ELSE counted

\* can_attempt: the breaker after the call and the flag it returns
CanAttempt(b, t) ==
    IF b.state = "closed" THEN [breaker |-> b, can |-> TRUE]
    ELSE IF b.state = "open"
    THEN IF b.opened_at # NoTime /\ t - b.opened_at >= timeout_seconds
         THEN [breaker |-> [b EXCEPT !.state = "half_open"], can |-> TRUE]
         ELSE [breaker |-> b, can |-> FALSE]
    ELSE IF b.state = "half_open" THEN [breaker |-> b, can |-> TRUE]
    ELSE [breaker |-> b, can |-> FALSE]

\* a call of the breaker: the method, what can_attempt returned, and the
\* parity of the number of calls so far, which tells a return from the
\* previous call's
BreakerCall(op, can) == [op |-> op, can |-> can, parity |-> 1 - breaker_ret.parity]

NoBreakerCall == [op |-> "none", can |-> FALSE, parity |-> 0]

BreakerInit ==
    /\ bnow = 0
    /\ breaker = NewBreaker
    /\ breaker_ret = NoBreakerCall
    /\ half_open_admitted = FALSE

RecordSuccessCall ==
    /\ breaker' = RecordSuccess(breaker)
    /\ breaker_ret' = BreakerCall("record_success", FALSE)
    /\ half_open_admitted' = FALSE
    /\ UNCHANGED bnow

RecordFailureCall ==
    /\ breaker.failure_count < MaxFailures
    /\ breaker' = RecordFailure(breaker, bnow)
    /\ breaker_ret' = BreakerCall("record_failure", FALSE)
    /\ half_open_admitted' = FALSE
    /\ UNCHANGED bnow

CanAttemptCall ==
    LET r == CanAttempt(breaker, bnow)
    IN  /\ breaker' = r.breaker
        /\ breaker_ret' = BreakerCall("can_attempt", r.can)
        /\ half_open_admitted' = IF r.can /\ r.breaker.state = "half_open"
                                 THEN TRUE ELSE half_open_admitted
        /\ UNCHANGED bnow

\* reset
BreakerReset ==
    /\ breaker' = NewBreaker
    /\ breaker_ret' = BreakerCall("reset", FALSE)
    /\ half_open_admitted' = FALSE
    /\ UNCHANGED bnow

BreakerTick(d) ==
    /\ bnow + d <= MaxBreakerNow
    /\ bnow' = bnow + d
    /\ UNCHANGED <<breaker, breaker_ret, half_open_admitted>>

others_breaker == <<ledger_vars, risk_vars, copy_vars, engine_vars, detector_vars, gate_vars,
                    boot_vars, sizing_vars, watch_vars>>

BreakerNext ==
    \/ RecordSuccessCall /\ UNCHANGED others_breaker
    \/ RecordFailureCall /\ UNCHANGED others_breaker
    \/ CanAttemptCall /\ UNCHANGED others_breaker
    \/ BreakerReset /\ UNCHANGED others_breaker
    \/ \E d \in BreakerSteps : BreakerTick(d) /\ UNCHANGED others_breaker

\* ======================================================== specifications
\* The ledger under concurrent callers; the risk manager stays as constructed.
Init == LedgerInit /\ RiskInit /\ CopyInit /\ EngineInit /\ DetectorInit /\ GateInit /\ BootInit /\ SizingInit /\ BreakerInit /\ WatchInit
    /\ BreakerInit
    /\ WatchInit
Next == LedgerNext
Spec == Init /\ [][Next]_vars

\* The ledger with its statistics; every thread inside an operation keeps
\* being scheduled.
NextLock == LockNext
SpecLock == Init /\ [][NextLock]_vars /\ \A t \in Threads : WF_<<pc, lock>>(Progress(t))

\* The ledger's arithmetic over sequences of calls, from a fresh ledger.
InitFills == Init /\ Ledger = FreshLedger
NextFills == FillNext
SpecFills == InitFills /\ [][NextFills]_vars

\* The risk manager; the ledger stays as a fresh start leaves it.
InitRisk ==
    /\ RiskInit
    /\ LedgerInit
    /\ Ledger = FreshLedger
    /\ CopyInit
    /\ EngineInit
    /\ DetectorInit
    /\ GateInit
    /\ BootInit
    /\ SizingInit
    /\ BreakerInit
    /\ WatchInit
NextRisk == RiskNext
SpecRisk == InitRisk /\ [][NextRisk]_vars

\* The copy bot: its one handler drives the risk manager and the ledger.  The
\* event loop keeps running whatever step is enabled; every step of the bot
\* that changes anything changes pc or copy.
InitCopy == LedgerInit /\ RiskInit /\ CopyInit /\ EngineInit /\ DetectorInit /\ GateInit /\ BootInit /\ SizingInit /\ BreakerInit /\ WatchInit
    /\ BreakerInit
    /\ WatchInit
NextCopy == CopyNext
SpecCopy == InitCopy /\ [][NextCopy]_vars /\ WF_<<pc, copy>>(NextCopy)

\* The copy bot with its risk manager in use: the handler, and between two
\* handlers the recording of results, the manual overrides and the clock.
InitGuardedCopy == InitCopy /\ Ledger = StoredFill(FreshLedger, "m1")
NextGuardedCopy == GuardedCopyNext
SpecGuardedCopy == InitGuardedCopy /\ [][NextGuardedCopy]_vars

\* The paper trading bot; the copy bot's ledger and risk manager stay as
\* constructed.
InitEngine ==
    /\ EngineInit
    /\ LedgerInit
    /\ Ledger = FreshLedger
    /\ RiskInit
    /\ CopyInit
    /\ DetectorInit
    /\ GateInit
    /\ BootInit
    /\ SizingInit
    /\ BreakerInit
    /\ WatchInit
NextEngine == EngineNext
SpecEngine == InitEngine /\ [][NextEngine]_vars

\* The detector on its own; everything else stays as constructed.
InitDetector ==
    /\ DetectorInit
    /\ EngineInit
    /\ LedgerInit
    /\ Ledger = FreshLedger
    /\ RiskInit
    /\ CopyInit
    /\ GateInit
    /\ BootInit
    /\ SizingInit
    /\ BreakerInit
    /\ WatchInit
NextDetector == DetectorNext
SpecDetector == InitDetector /\ [][NextDetector]_vars

\* The detector called directly, one call at a time.
InitDetectCall == InitDetector
NextDetectCall == DetectCallNext
SpecDetectCall == InitDetectCall /\ [][NextDetectCall]_vars

\* The bot's risk manager on its own; everything else stays as constructed.
InitGate ==
    /\ GateInit
    /\ DetectorInit
    /\ EngineInit
    /\ LedgerInit
    /\ Ledger = FreshLedger
    /\ RiskInit
    /\ CopyInit
    /\ BootInit
    /\ SizingInit
    /\ BreakerInit
    /\ WatchInit
NextGate == GateNext
SpecGate == InitGate /\ [][NextGate]_vars

\* Starts and restarts of the ledger on a stored database, with one caller.
InitRestart ==
    /\ RestartInit
    /\ RiskInit
    /\ CopyInit
    /\ EngineInit
    /\ DetectorInit
    /\ GateInit
    /\ SizingInit
    /\ BreakerInit
    /\ WatchInit
NextRestart == RestartNext
SpecRestart == InitRestart /\ [][NextRestart]_vars

\* The position size calculation on its own.
InitSizing ==
    /\ SizingInit
    /\ BreakerInit
    /\ WatchInit
    /\ LedgerInit
    /\ Ledger = FreshLedger
    /\ RiskInit
    /\ CopyInit
    /\ EngineInit
    /\ DetectorInit
    /\ GateInit
    /\ BootInit
NextSizing == SizingNext
SpecSizing == InitSizing /\ [][NextSizing]_vars

\* The paper trading bot while it runs: the monitoring loop keeps making its
\* passes (asyncio.sleep between them returns) and time keeps advancing.
InitMonitoring == InitEngine
NextMonitoring == MonitoringNext
SpecMonitoring ==
    /\ InitMonitoring
    /\ [][NextMonitoring]_vars
    /\ WF_engine_vars(\E lookup \in Lookups : MonitorCycle(lookup))
    /\ WF_engine_vars(\E d \in ClockSteps : ClockTick(d))

\* The arbitrage bot's watcher tasks and its monitoring loop.
InitWatch == InitEngine
NextWatch == WatchNext
SpecWatch == InitWatch /\ [][NextWatch]_vars

\* The circuit breaker called on its own.
InitBreaker ==
    /\ BreakerInit
    /\ WatchInit
    /\ SizingInit
    /\ LedgerInit
    /\ Ledger = FreshLedger
    /\ RiskInit
    /\ CopyInit
    /\ EngineInit
    /\ DetectorInit
    /\ GateInit
    /\ BootInit
NextBreaker == BreakerNext
SpecBreaker == InitBreaker /\ [][NextBreaker]_vars

\* ------------------------------------------------------------ ledger claims
\* What the fills of history h add to the balance: a BUY record takes its
\* total_cost, a SELL record gives its amount less fees and gas (the record
\* holds the gas as total_cost - amount - fees).
RECURSIVE FillsNet(_)
FillsNet(h) ==
    IF h = << >> THEN 0
    ELSE LET r == Head(h)
         IN  (IF r.side = "BUY" THEN 0 - r.total_cost
              ELSE r.amount - r.fees - (r.total_cost - r.amount - r.fees))
             + FillsNet(Tail(h))

\* C1: in every state the balance is the initial balance less the total_cost
\* of every recorded BUY fill plus the net proceeds of every recorded SELL
\* fill; a step that changes the balance appends exactly one trade record;
\* a call that returns a rejection leaves the balance as it was.
C1_BalanceTraceable ==
    /\ [](balance = initial_balance + FillsNet(trade_history))
    /\ [][balance' # balance =>
            /\ Len(trade_history') = Len(trade_history) + 1
            /\ Tail(trade_history') = trade_history]_vars
    /\ [][\A t \in Threads :
            (pc[t] = "validate" /\ pc'[t] = "idle") => balance' = balance]_vars

\* A SELL has been filled on a loaded position and credited to the balance.
C1_Witness ==
    \E t \in Threads :
        /\ pc[t] = "save_state"
        /\ call[t].side = "SELL"
        /\ Len(trade_history) = 2
        /\ balance # initial_balance

\* C2: a call whose BUY costs more than the balance, whose SELL names a key
\* with no position, or whose SELL asks more shares than the position holds
\* returns (False, message, None) with the message of that case, raises
\* nothing, releases the lock and leaves balance, positions and trade
\* history as they were.
C2_RejectionsReturnedUnchanged ==
    [][\A t \in Threads, c \in Calls, s \in SlippageDraws :
        LET k == Costs(c.side, c.shares, c.price, s)
            key == position_key(c.market_id, c.outcome)
            expected ==
                IF c.side = "BUY" /\ k.total_cost > balance THEN "InsufficientBalance"
                ELSE IF c.side = "SELL" /\ key \notin DOMAIN positions THEN "NoSuchPosition"
                ELSE IF c.side = "SELL" /\ c.shares > positions[key].shares
                     THEN "InsufficientShares"
                ELSE None
        IN  (Validate(t, c, s) /\ expected # None) =>
                /\ result'[t] = [ok |-> "False", message |-> expected, trade |-> None]
                /\ pc'[t] = "idle"
                /\ lock' = NoThread
                /\ Ledger' = Ledger]_vars

\* All three rejections have been returned: one thread was refused a SELL of
\* more shares than the position holds, another a BUY it cannot pay or a
\* SELL with no position.
C2_Witness ==
    \E t, u \in Threads :
        /\ result[t].ok = "False" /\ result[t].message = "InsufficientShares"
        /\ result[u].ok = "False"
        /\ result[u].message \in {"InsufficientBalance", "NoSuchPosition"}

\* C3: every position in the open-positions map has shares > 0.
C3_SharesPositive ==
    \A key \in DOMAIN positions : positions[key].shares > 0

\* The threads inside the locked part of execute_trade.
InCriticalSection == {t \in Threads : pc[t] \in {"validate", "apply", "commit", "save_state"}}
MidUpdate == {t \in Threads : pc[t] \in {"validate", "apply", "commit"}}

\* C4: at most one thread is inside execute_trade's locked part, and whenever
\* no thread is in the middle of an update, balance, positions and trade
\* history are those of the same calls run one at a time.
C4_Atomic ==
    /\ Cardinality(InCriticalSection) <= 1
    /\ (\A t \in InCriticalSection : lock = t)
    /\ (MidUpdate = {} => Ledger = serial)

\* One thread has filled a trade while another waits for the lock.
C4_Witness ==
    \E t, u \in Threads :
        /\ t # u
        /\ pc[t] = "save_state"
        /\ pc[u] = "acquire"
        /\ Len(trade_history) >= 1

\* -------------------------------------------------------------- risk claims
\* the checks in the order the claim gives, each with its rejection
CheckOrder == <<"halted", "blocked", "win_rate", "daily_loss", "size", "max_positions">>

Fails(name, w, b, a, n) ==
    IF name = "halted"
    THEN trading_halted /\ trading_halt_until # NoTime /\ now < trading_halt_until
    ELSE IF name = "blocked" THEN Lower(w) \in blocked_wallets
    ELSE IF name = "win_rate" THEN PoorPerformer(Lower(w))
    ELSE IF name = "daily_loss" THEN DailyLossHit(b)
    ELSE IF name = "size" THEN a * 100 > b * max_position_size_percent
    ELSE n >= max_concurrent_positions

FirstFailing(w, b, a, n) ==
    LET failing == {i \in DOMAIN CheckOrder : Fails(CheckOrder[i], w, b, a, n)}
    IN  IF failing = {} THEN "allowed"
        ELSE CheckOrder[CHOOSE i \in failing : \A j \in failing : i <= j]

\* C5: every check_trade_allowed call returns the rejection of the first check
\* that fails in the order halt, blocked source, win-rate floor, daily loss
\* limit, position-size cap, concurrent-positions cap, and returns allowed
\* only when none fails; with the 5% cap and a balance of 10,000 a trade of
\* 800 is rejected.
C5_FirstFailingCheckWins ==
    [][\A w \in WalletInputs, b \in BalanceInputs, a \in AmountInputs, n \in OpenCountInputs :
          CheckTradeAllowed(w, b, a, n) =>
              /\ last'.reason = FirstFailing(w, b, a, n)
              /\ (last'.allowed = "True") = (FirstFailing(w, b, a, n) = "allowed")
              /\ (b = 10000 /\ a = 800) => last'.allowed = "False"]_vars

\* a call got past the halt, the block, the win rate and the daily loss checks
\* and was rejected for its size
C5_Witness ==
    /\ last.op = "check_trade_allowed"
    /\ last.reason = "size"
    /\ ~trading_halted

\* C6: a check that finds the day's loss at or over the limit sets a halt of
\* 24 hours, and while that halt is set every check made before
\* trading_halt_until is rejected, whatever its source, balance, amount and
\* open-position count, and leaves the halt as it is; only time passing or
\* resume_trading ends it.
C6_HaltRejectsEveryCheck ==
    [][/\ \A w \in WalletInputs, b \in BalanceInputs, a \in AmountInputs, n \in OpenCountInputs :
             CheckTradeAllowed(w, b, a, n) =>
                 /\ (last'.reason = "daily_loss") =>
                        /\ DailyLossHit(b)
                        /\ trading_halted'
                        /\ trading_halt_until' = now + HaltHours
                 /\ (trading_halted /\ trading_halt_until # NoTime /\ now < trading_halt_until) =>
                        /\ last'.allowed = "False"
                        /\ trading_halted'
                        /\ trading_halt_until' = trading_halt_until
       /\ (trading_halted /\ trading_halt_until # NoTime /\ now' < trading_halt_until) =>
              \/ trading_halted' /\ trading_halt_until' = trading_halt_until
              \/ ResumeTrading]_vars

\* a check made during the halt was turned away
C6_Witness ==
    /\ last.op = "check_trade_allowed"
    /\ last.reason = "halted"
    /\ trading_halted
    /\ trading_halt_reason = "daily_loss"
    /\ now < trading_halt_until

\* C7: at a time at or past trading_halt_until, get_risk_status does not
\* report trading_halted as true.
C7_StatusNeverHaltedPastExpiry ==
    [][(GetRiskStatus /\ trading_halt_until # NoTime /\ now >= trading_halt_until)
           => ~last'.reported_halted]_vars

\* C8: a check made while halted at or past trading_halt_until goes on to the
\* remaining checks in the same call and returns their result, which can be
\* allowed; the flag, the reason and the timestamp of the old halt are cleared,
\* and the halt is set again only when the daily loss check of that same call
\* fails.
C8_ExpiredHaltClearedInCall ==
    [][\A w \in WalletInputs, b \in BalanceInputs, a \in AmountInputs, n \in OpenCountInputs :
          (CheckTradeAllowed(w, b, a, n) /\ trading_halted
              /\ (trading_halt_until = NoTime \/ now >= trading_halt_until)) =>
              /\ last'.reason # "halted"
              /\ last'.reason = FirstFailing(w, b, a, n)
              /\ IF last'.reason = "daily_loss"
                 THEN /\ trading_halted'
                      /\ trading_halt_until' = now + HaltHours
                 ELSE /\ ~trading_halted'
                      /\ trading_halt_reason' = None
                      /\ trading_halt_until' = NoTime]_vars

\* the call that found the halt run out was allowed
C8_Witness ==
    /\ last.op = "check_trade_allowed"
    /\ last.resumed
    /\ last.allowed = "True"
    /\ ~trading_halted
    /\ trading_halt_until = NoTime

RiskState ==
    <<trading_halted, trading_halt_reason, trading_halt_until, blocked_wallets,
      wallet_performance, daily_losses, risk_events>>

\* C9 as stated: a check rejected for the position-size cap or the
\* concurrent-positions cap leaves halt flag, halt reason, halt-until, blocked
\* set, wallet performance, daily losses and risk events as they were.
C9_CapRejectionChangesNothing ==
    [][\A w \in WalletInputs, b \in BalanceInputs, a \in AmountInputs, n \in OpenCountInputs :
          (CheckTradeAllowed(w, b, a, n) /\ last'.reason \in {"size", "max_positions"})
              => UNCHANGED RiskState]_vars

\* C9: a check rejected for the position-size cap or the concurrent-positions
\* cap leaves blocked set, wallet performance, daily losses and risk events as
\* they were; it leaves the halt as it was too, except that a halt that had
\* run out when the call was made is cleared by it (flag, reason, halt-until).
C9_CapRejectionClearsOnlyExpiredHalt ==
    [][\A w \in WalletInputs, b \in BalanceInputs, a \in AmountInputs, n \in OpenCountInputs :
          (CheckTradeAllowed(w, b, a, n) /\ last'.reason \in {"size", "max_positions"}) =>
              /\ UNCHANGED <<blocked_wallets, wallet_performance, daily_losses, risk_events>>
              /\ IF trading_halted
                 THEN /\ ~trading_halted'
                      /\ trading_halt_reason' = None
                      /\ trading_halt_until' = NoTime
                 ELSE UNCHANGED <<trading_halted, trading_halt_reason, trading_halt_until>>]_vars

\* a cap rejection by the call that found the halt run out
C9_Witness ==
    /\ last.op = "check_trade_allowed"
    /\ last.reason \in {"size", "max_positions"}
    /\ last.resumed
    /\ ~trading_halted

\* C10: a source whose results handed to record_trade_result have reached the
\* minimum sample with a win rate below the floor is rejected by every
\* check_trade_allowed call.
C10_PoorSourceRejected ==
    [][\A w \in WalletInputs, b \in BalanceInputs, a \in AmountInputs, n \in OpenCountInputs :
          (/\ CheckTradeAllowed(w, b, a, n)
           /\ recorded[Lower(w)].total >= min_trades_for_win_rate
           /\ recorded[Lower(w)].wins * 100 < min_win_rate_percent * recorded[Lower(w)].total)
              => last'.allowed = "False"]_vars

\* ---------------------------------------------------------- copy bot claims
\* the closing fills in a trade history
RECURSIVE ClosingFills(_)
ClosingFills(h) ==
    IF h = << >> THEN 0
    ELSE (IF Head(h).side = "SELL" THEN 1 ELSE 0) + ClosingFills(Tail(h))

\* C11: every successful closing fill (SELL) of the ledger is followed by a
\* call of record_trade_result for it: whenever the trade history holds more
\* closing fills than results were handed to the risk manager, the missing
\* result is handed over later.
C11_ClosingFillRecorded ==
    (ClosingFills(trade_history) > RecordedTotal)
        ~> (ClosingFills(trade_history) <= RecordedTotal)

\* ------------------------------------------------------ arbitrage bot claims
\* the exit rule as a priority list: stop loss, take profit, then the two
\* time rules, with inclusive or exclusive time thresholds
ExitReasonByRule(position, current_price, t, inclusive) ==
    LET unrealized_pnl == current_price - position.entry_price
        time_held == t - position.entry_time
        Reached(threshold) == IF inclusive THEN time_held >= threshold ELSE time_held > threshold
    IN  IF unrealized_pnl * 100 <= (0 - stop_loss_pct) * position.entry_price THEN "stop_loss"
        ELSE IF unrealized_pnl * 100 >= take_profit_pct * position.entry_price THEN "take_profit"
        ELSE IF Reached(hard_expiry) THEN "market_expired"
        ELSE IF Reached(soft_expiry) THEN "approaching_expiration"
        ELSE ""

ExitFollowsRule(inclusive) ==
    \A position_id \in DOMAIN pm_positions, current_price \in OddsInputs \ {0} :
        LET d == ShouldExitPosition(pm_positions[position_id], current_price, clock)
            stated == ExitReasonByRule(pm_positions[position_id], current_price, clock, inclusive)
        IN  /\ d.reason = stated
            /\ d.should_exit = (stated # "")
            /\ d.should_exit => d.exit_price = current_price

\* C12 as stated: given a current price, should_exit_position returns the
\* first rule that matches in the order stop_loss, take_profit, market_expired
\* (held for 20 minutes or more), approaching_expiration (held for 14 minutes
\* 30 seconds or more), and no exit otherwise.
C12_ExitRuleAsStated == ExitFollowsRule(TRUE)

\* C12: given a current price, should_exit_position returns the first rule
\* that matches in the order stop_loss, take_profit, market_expired (held for
\* more than 20 minutes), approaching_expiration (held for more than 14
\* minutes 30 seconds), and no exit otherwise: a position held for exactly
\* 20 minutes leaves as approaching_expiration, one held for exactly
\* 14 minutes 30 seconds stays.
C12_ExitRuleExclusive == ExitFollowsRule(FALSE)

\* two positions held for exactly 20 minutes were closed in one pass, one by
\* the stop loss and one as approaching_expiration
C12_Witness ==
    \E i, j \in DOMAIN closed_positions :
        /\ closed_positions[i].exit_time - closed_positions[i].entry_time = hard_expiry
        /\ closed_positions[i].exit_reason = "approaching_expiration"
        /\ closed_positions[j].exit_time - closed_positions[j].entry_time = hard_expiry
        /\ closed_positions[j].exit_reason = "stop_loss"

\* C13: when the odds lookup for an open position fails or returns nothing,
\* should_exit_position returns no exit for the missing price and the pass of
\* check_position_exits leaves that position open.
C13_NoPriceNoClose ==
    [][\A lookup \in Lookups :
          MonitorCycle(lookup) =>
              \A position_id \in DOMAIN pm_positions :
                  lookup[position_id] = LookupFailed =>
                      /\ ~ShouldExitPosition(pm_positions[position_id], NoOdds, clock).should_exit
                      /\ position_id \in DOMAIN pm_positions']_vars

\* C14: every entry of the positions map has status OPEN, every entry of
\* closed_positions has status CLOSED with its exit price, exit time and exit
\* reason set, and no position id is in both, whatever open_position,
\* close_position, check_position_exits and stop have done.
C14_OpenXorClosed ==
    /\ \A position_id \in DOMAIN pm_positions :
           /\ pm_positions[position_id].status = "OPEN"
           /\ pm_positions[position_id].position_id = position_id
    /\ \A i \in DOMAIN closed_positions :
           /\ closed_positions[i].status = "CLOSED"
           /\ closed_positions[i].exit_price # NoOdds
           /\ closed_positions[i].exit_time # NoTime
           /\ closed_positions[i].exit_reason # None
           /\ closed_positions[i].position_id \notin DOMAIN pm_positions

\* one position is in the closed history, closed by the monitoring pass,
\* while another is open
C14_Witness ==
    /\ DOMAIN pm_positions # {}
    /\ \E i \in DOMAIN closed_positions :
           closed_positions[i].exit_reason \in {"stop_loss", "take_profit"}

\* C15: a position is closed at most once and its closed record never
\* changes: no step alters or removes an entry of closed_positions, no
\* position id is closed twice by the monitoring pass, stop() calls or
\* close_position calls, and close_position on an unknown or already closed id
\* returns False and changes no position, counter or closed-history entry.
C15_ClosedOnce ==
    [][/\ Len(closed_positions') >= Len(closed_positions)
       /\ SubSeq(closed_positions', 1, Len(closed_positions)) = closed_positions
       /\ \A i, j \in DOMAIN closed_positions' :
              closed_positions'[i].position_id = closed_positions'[j].position_id => i = j
       /\ \A position_id \in PositionIds, exit_price \in CloseOdds :
              (CloseCall(position_id, exit_price) /\ position_id \notin DOMAIN pm_positions)
                  => /\ close_ret' = [position_id |-> position_id, ret |-> FALSE]
                     /\ UNCHANGED <<pm_positions, closed_positions, total_pnl, win_count,
                                    loss_count>>]_vars

\* close_position was called for a position that stop() had closed, and
\* returned False, and the final stop() has run since
C15_Witness ==
    /\ close_ret.position_id # 0
    /\ ~close_ret.ret
    /\ mon = "exited"
    /\ \E i \in DOMAIN closed_positions :
           /\ closed_positions[i].position_id = close_ret.position_id
           /\ closed_positions[i].exit_reason = "shutdown"

\* C16: once a bot has shut down (the arbitrage bot's final stop() has run
\* and the process has left, the copy bot's shutdown() has run) no position
\* is left open in its book.
C16_NothingOpenAfterShutdown ==
    /\ mon = "exited" => DOMAIN pm_positions = {}
    /\ ~copy.running => DOMAIN positions = {}

\* C17: once stop() has set running to False, no price callback, in flight
\* or delivered later, opens a position: the open positions only shrink.
C17_NoOpenAfterStop ==
    [][(mon # "not_started" /\ ~running)
          => DOMAIN pm_positions' \subseteq DOMAIN pm_positions]_vars

\* ---------------------------------------------------------- detector claims
\* the index of the oldest retained snapshot inside the window, 0 if none
Baseline(history, window_seconds, t) ==
    IF \E i \in DOMAIN history : history[i].timestamp >= t - window_seconds
    THEN CHOOSE i \in DOMAIN history :
             /\ history[i].timestamp >= t - window_seconds
             /\ \A j \in 1..(i - 1) : history[j].timestamp < t - window_seconds
    ELSE 0

FirstCallPasses(symbol, price, odds) ==
    LET history == UpdatePrice(price_history[symbol], price, dnow)
        spike == DetectSpike(history, price, spike_window, dnow)
        divergence == CalculateSpikeDivergence(spike.price_change_pct, odds, "up")
    IN  /\ spike.detected
        /\ spike.direction = "up"
        /\ Abs(divergence) * 2 >= spike_threshold
        /\ EstimateProfit(divergence, odds) >= min_profit_threshold

Returned(ret, polymarket_market_id, direction) ==
    {i \in DOMAIN ret : ret[i] = [polymarket_market_id |-> polymarket_market_id,
                                  direction |-> direction]}

\* C19: of the opportunities for one market id and direction that pass the
\* spike, divergence and profit tests, one inside the cooldown of a recorded
\* one returns nothing, and one outside it is returned, once, and recorded in
\* the recent list; two recorded ones are never less than the cooldown apart.
C19_OnePerMarketAndCooldown ==
    [][/\ \A symbol \in Symbols, price \in ExchangePrices,
             yes_odds \in [DOMAIN DetMarkets -> DetOddsInputs] :
              (PriceUpdate(symbol, price, yes_odds)
                   /\ FirstCallPasses(symbol, price, yes_odds[1]))
                  => LET in_cooldown ==
                             \E i \in DOMAIN recent_opportunities :
                                 /\ recent_opportunities[i].polymarket_market_id = DetMarkets[1]
                                 /\ recent_opportunities[i].direction = "up"
                                 /\ dnow - recent_opportunities[i].timestamp
                                        < opportunity_cooldown
                     IN  IF in_cooldown
                         THEN Returned(det_ret', DetMarkets[1], "up") = {}
                         ELSE /\ Cardinality(Returned(det_ret', DetMarkets[1], "up")) = 1
                              /\ \E i \in DOMAIN recent_opportunities' :
                                     /\ recent_opportunities'[i].polymarket_market_id
                                            = DetMarkets[1]
                                     /\ recent_opportunities'[i].direction = "up"
                                     /\ recent_opportunities'[i].timestamp = dnow
       /\ \A i, j \in DOMAIN recent_opportunities' :
              (/\ i < j
               /\ recent_opportunities'[i].polymarket_market_id
                      = recent_opportunities'[j].polymarket_market_id
               /\ recent_opportunities'[i].direction = recent_opportunities'[j].direction)
                  => recent_opportunities'[j].timestamp - recent_opportunities'[i].timestamp
                         >= opportunity_cooldown]_vars

\* an opportunity was recorded, a later one for the same market and
\* direction was recorded after the cooldown, and the last price update,
\* inside the new cooldown, returned nothing for that market and direction
C19_Witness ==
    /\ \E i, j \in DOMAIN recent_opportunities :
           /\ i < j
           /\ recent_opportunities[i].polymarket_market_id = DetMarkets[1]
           /\ recent_opportunities[j].polymarket_market_id = DetMarkets[1]
           /\ recent_opportunities[i].direction = "up"
           /\ recent_opportunities[j].direction = "up"
    /\ Returned(det_ret, DetMarkets[1], "up") = {}
    /\ \E symbol \in Symbols : Head(price_history[symbol]).price = 120

\* C20: for each symbol and direction at most one opportunity is returned
\* per cooldown window, also when the symbol has several markets that are
\* evaluated for one price update: two recorded opportunities of one symbol
\* and direction are never less than the cooldown apart.
C20_OnePerSymbolAndCooldown ==
    \A i, j \in DOMAIN recent_opportunities :
        (/\ i < j
         /\ recent_opportunities[i].symbol = recent_opportunities[j].symbol
         /\ recent_opportunities[i].direction = recent_opportunities[j].direction)
            => recent_opportunities[j].timestamp - recent_opportunities[i].timestamp
                   >= opportunity_cooldown

\* the snapshots of a price history that were taken at time t
SnapshotsAt(history, t) ==
    LET At(snapshot) == snapshot.timestamp = t
    IN  Len(SelectSeq(history, At))

\* C21: one inbound price event for a symbol appends exactly one snapshot to
\* that symbol's price history, however many markets and directions are
\* evaluated for it: a step that changes a price history adds one snapshot
\* of the current time to it.
C21_OneSnapshotPerEvent ==
    [][\A symbol \in Symbols :
          price_history'[symbol] # price_history[symbol]
              => SnapshotsAt(price_history'[symbol], dnow)
                     = SnapshotsAt(price_history[symbol], dnow) + 1]_vars

\* --------------------------------------------- the bot's risk manager claims
\* C22: can_open_position refuses with the reason daily_loss_limit_reached
\* whenever the daily loss limit leaves no room for the position, also when
\* the daily loss has not reached max_daily_loss but the size exceeds what
\* remains: a call outside an emergency shutdown whose size is above
\* max_daily_loss + daily_pnl returns (False, 'daily_loss_limit_reached').
C22_NoRoomIsDailyLossLimit ==
    [][\A position_size \in GateSizes :
          (/\ CanOpenPositionCall(position_size)
           /\ ~emergency_shutdown
           /\ position_size > max_daily_loss + ResetDailyPnlIfNeeded(Gate, date).daily_pnl)
              => /\ ~gate_ret'.can_open
                 /\ gate_ret'.reason = "daily_loss_limit_reached"]_vars

\* C23: once update_daily_pnl has brought daily_pnl to -emergency_shutdown_loss
\* or lower the shutdown flag is set, only reset_emergency_shutdown clears
\* it (no profit and no day-boundary reset of daily_pnl does), and while it
\* is set every can_open_position returns (False, 'emergency_shutdown_active'),
\* whatever the daily loss.
C23_ShutdownPersists ==
    [][/\ \A pnl \in GatePnlInputs :
              (UpdateDailyPnlCall(pnl) /\ daily_pnl' <= 0 - emergency_shutdown_loss)
                  => emergency_shutdown'
       /\ (emergency_shutdown /\ ~emergency_shutdown')
              => gate_ret'.op = "reset_emergency_shutdown"
       /\ \A position_size \in GateSizes :
              (CanOpenPositionCall(position_size) /\ emergency_shutdown)
                  => /\ ~gate_ret'.can_open
                     /\ gate_ret'.reason = "emergency_shutdown_active"
                     /\ emergency_shutdown']_vars

\* a shutdown was set on an earlier day, the daily P&L was reset at the day
\* boundary and a profit was booked since, and the last can_open_position
\* was refused for the shutdown
C23_Witness ==
    /\ emergency_shutdown
    /\ date > 0
    /\ last_reset = date
    /\ daily_pnl > 0
    /\ gate_ret.op = "can_open_position"
    /\ gate_ret.reason = "emergency_shutdown_active"

\* ------------------------------------------------------- the restart claims
\* a stored balance below zero, or a stored position that no trade record
\* accounts for
Corrupt(state, trades) ==
    \/ state.balance # << >> /\ state.balance[1] < 0
    \/ \E key \in DOMAIN state.positions :
           \A i \in DOMAIN trades :
               position_key(trades[i].market_id, trades[i].outcome) # key

\* C24: crash recovery round trip: after any sequence of fills a new
\* PaperTrader constructed on the same database has the balance, the open
\* positions and the (recent) trade history of the running instance: a
\* construction while the running instance is not in the middle of applying
\* a fill leaves balance, positions and trade history as they were.
C24_RestartRestoresLedger ==
    [][(/\ NewPaperTrader
        /\ boot.running
        /\ \A t \in Threads : pc[t] # "commit")
           => /\ balance' = balance
              /\ positions' = positions
              /\ trade_history' = trade_history]_vars

\* C25: PaperTrader refuses to start when the persisted ledger state is
\* corrupt: a construction on a database with a negative stored balance or
\* an orphaned position leaves no running PaperTrader.
C25_CorruptStateRefused ==
    [][(NewPaperTrader /\ Corrupt(db_state, db_trades)) => ~boot'.running]_vars

\* ------------------------------------------------- ledger claims, continued
\* C26: a successful SELL of s shares on a position holding h shares removes
\* the position when s >= 0.999 * h and otherwise leaves it open with
\* exactly h - s shares and the same entry price; every other position is
\* untouched, and the balance is credited amount - fees - gas for the s
\* shares sold at the executed price.
C26_SellClosesOrReduces ==
    [][\A t \in Threads :
          LET c == call[t]
              key == position_key(c.market_id, c.outcome)
          IN  /\ (pc[t] = "apply" /\ pc'[t] = "commit" /\ c.side = "SELL")
                     => LET h == positions[key].shares
                            s == c.shares
                        IN  /\ IF s * 1000 >= h * FullCloseThreshold
                               THEN key \notin DOMAIN positions'
                               ELSE /\ key \in DOMAIN positions'
                                    /\ positions'[key] =
                                           [positions[key] EXCEPT !.shares = h - s]
                            /\ \A x \in DOMAIN positions \ {key} :
                                   x \in DOMAIN positions' /\ positions'[x] = positions[x]
                            /\ DOMAIN positions' \subseteq DOMAIN positions
              /\ (pc[t] = "commit" /\ pc'[t] = "save_state" /\ c.side = "SELL")
                     => LET k == loc[t].costs
                        IN  /\ k.amount = c.shares * c.price * (1000 - k.slippage)
                            /\ balance' = balance + k.amount - k.fees - gas_cost_usdc]_vars

\* a SELL of 999 of the 1000 shares held was filled: the position is gone
\* and the balance was credited
C26_Witness ==
    \E t \in Threads :
        /\ pc[t] = "save_state"
        /\ call[t].side = "SELL"
        /\ call[t].shares = 999
        /\ position_key(call[t].market_id, call[t].outcome) \notin DOMAIN positions
        /\ balance = serial.balance
        /\ Head(trade_history).side = "SELL"

Admissible(history, exchange_price, polymarket_odds, direction, t) ==
    LET after == UpdatePrice(history, exchange_price, t)
        oldest == Baseline(after, spike_window, t)
        baseline == IF oldest = 0 THEN 0 ELSE after[oldest].price
    IN  /\ Len(after) >= 2
        /\ baseline > 0
        /\ LET rise == ((exchange_price - baseline) * 1000000) \div baseline
               fall == ((baseline - exchange_price) * 1000000) \div baseline
               magnitude == IF direction = "up" THEN rise ELSE fall
               divergence == IF direction = "up"
                             THEN (magnitude * (1000 - polymarket_odds)) \div 1000
                             ELSE (magnitude * polymarket_odds) \div 1000
               profit == (divergence * (1000 - polymarket_odds)) \div 1000 - fees
           IN  /\ IF direction = "up" THEN exchange_price > baseline
                                      ELSE exchange_price < baseline
               /\ magnitude >= spike_threshold
               /\ 2 * divergence >= spike_threshold
               /\ (IF profit > 0 THEN profit ELSE 0) >= min_profit_threshold

\* C28: every opportunity that detect_opportunity returns satisfies all the
\* admission conditions at once (spike in the requested direction, divergence
\* >= 0.5 * spike_threshold, expected profit >= min_profit_threshold), and
\* when a condition fails nothing is returned and the list of recent
\* opportunities is unchanged.
C28_ReturnedMeansAdmissible ==
    [][\A symbol \in Symbols, price \in CallPrices, odds \in CallOdds,
          direction \in Directions :
          DetectOpportunityCall(symbol, price, CallMarket, odds, direction)
              => IF Admissible(price_history[symbol], price, odds, direction, dnow)
                 THEN det_ret' # << >> <=> recent_opportunities' # recent_opportunities
                 ELSE /\ det_ret' = << >>
                      /\ recent_opportunities' = recent_opportunities]_vars

\* a call for "down" after a fall of the price returned an opportunity, the
\* second one on record
C28_Witness ==
    /\ det_ret # << >>
    /\ Len(recent_opportunities) >= 2
    /\ LET last_one == recent_opportunities[Len(recent_opportunities)]
       IN  /\ last_one.direction = "down"
           /\ last_one.timestamp = dnow
           /\ last_one.exchange_price = 100
           /\ last_one.expected_profit >= min_profit_threshold

\* ------------------------------------------------- the position size claim
\* C29: calculate_position_size(intended, balance, copy_percent) returns
\* min(intended * copy_percent / 100, balance * max_position_size_percent / 100)
\* for all inputs, so the result never exceeds the position-size cap.
C29_SizeIsMinOfCopyAndCap ==
    sizing.called =>
        LET copied == (sizing.original_trade_amount * sizing.copy_percentage) \div 100
            cap == (sizing.current_balance * max_position_size_percent) \div 100
        IN  /\ sizing.ret <= cap
            /\ sizing.ret <= copied
            /\ sizing.ret \in {copied, cap}

\* 1000 proposed on a balance of 10,000 with the 5% cap gave 500
C29_Witness ==
    /\ sizing.called
    /\ sizing.original_trade_amount = 1000000
    /\ sizing.current_balance = 10000000
    /\ sizing.copy_percentage = 100
    /\ sizing.ret = 500000

\* ------------------------------------------- risk manager claims, continued
\* the days the daily loss accumulator can hold an entry for
LossDays == (0 - 1)..Today(MaxNow)

\* C30: the daily loss accumulator resets at the day boundary and the total
\* the gate compares with the limit on day D is the sum of the losses
\* recorded on day D only: a step within a day never lowers the total
\* recorded for that day (no operation moves or discards it), changes no
\* other day's total, and raises the day's total only by the loss that a
\* record_trade_result books.
C30_DailyLossPerDay ==
    [][LET today == Today(now)
       IN  now' = now =>
               /\ DailyLoss(daily_losses', today) >= DailyLoss(daily_losses, today)
               /\ \A d \in LossDays \ {today} :
                      DailyLoss(daily_losses', d) = DailyLoss(daily_losses, d)
               /\ DailyLoss(daily_losses', today) > DailyLoss(daily_losses, today)
                      => last'.op = "record_trade_result"]_vars

\* ------------------------------------------------ the price history claim
TimeOrdered(history) ==
    \A i, j \in DOMAIN history : i < j => history[i].timestamp <= history[j].timestamp

\* C31: for every symbol the price history is ordered by time, oldest first,
\* and never holds more snapshots than the deque's maximum length; and right
\* after update_price (here within a detect_opportunity call) it holds no
\* snapshot older than the history window and ends with the new snapshot.
C31_HistoryOrderedCappedFresh ==
    /\ [](\A symbol \in Symbols :
            /\ TimeOrdered(price_history[symbol])
            /\ Len(price_history[symbol]) <= HistoryMaxLen)
    /\ [][\A symbol \in Symbols, price \in CallPrices, odds \in CallOdds,
            direction \in Directions :
            DetectOpportunityCall(symbol, price, CallMarket, odds, direction)
                => LET history == price_history'[symbol]
                   IN  /\ history # << >>
                       /\ history[Len(history)] = PriceSnapshot(dnow, price)
                       /\ \A i \in DOMAIN history :
                              history[i].timestamp >= dnow - price_history_window]_vars

\* the history is full, spans two times, and its oldest snapshot is 20 s old
\* at a time when snapshots of before the window have been dropped
C31_Witness ==
    LET history == price_history["BTC/USDT"]
    IN  /\ Len(history) = HistoryMaxLen
        /\ dnow >= 40
        /\ history[1].timestamp = dnow - 20
        /\ history[Len(history)].timestamp = dnow

\* ----------------------------------------------- the circuit breaker claim
\* C32: in state half_open the breaker allows one attempt: once can_attempt
\* has returned True in half_open, it returns False until record_success or
\* record_failure has recorded the outcome of that attempt.
C32_HalfOpenAdmitsOne ==
    [][(CanAttemptCall /\ breaker.state = "half_open" /\ half_open_admitted)
          => ~breaker_ret'.can]_vars

\* --------------------------------------------------- the lock-freedom claim
\* C33: no operation of the ledger blocks forever on the ledger's own lock:
\* a thread that has taken the lock (so no other thread held it) in
\* execute_trade, get_performance_stats or get_portfolio_stats eventually
\* returns, and the lock is free of it afterwards.
C33_LockHolderReturns ==
    \A t \in Threads : (lock = t) ~> (pc[t] = "idle" /\ lock # t)

RECURSIVE SumOver(_, _)
SumOver(f, S) ==
    IF S = {} THEN 0
    ELSE LET x == CHOOSE y \in S : TRUE IN f[x] + SumOver(f, S \ {x})

\* shares * entry_price over the open positions, and the shares held
CostBasis(pos) == SumOver([key \in DOMAIN pos |-> pos[key].shares * pos[key].entry_price],
                          DOMAIN pos)
SharesHeld(pos) == SumOver([key \in DOMAIN pos |-> pos[key].shares], DOMAIN pos)

\* realized_pnl of the SELL records less fees and gas of the BUY records
RECURSIVE RealizedNet(_)
RealizedNet(h) ==
    IF h = << >> THEN 0
    ELSE (IF Head(h).side = "SELL" THEN Head(h).realized_pnl
                                   ELSE 0 - (Head(h).fees + gas_cost_usdc))
         + RealizedNet(Tail(h))

\* C35: whenever no fill is under way, balance + the sum over the open
\* positions of shares * entry_price equals initial_balance + the realized PnL
\* of the SELL records - the fees and gas of the BUY records (up to the
\* rounding of an averaged entry price, less than one millionth per share
\* held): no fill makes cost basis disappear without a credit or realized PnL.
C35_ValueConserved ==
    (\A t \in Threads : pc[t] # "commit")
        => Abs((balance + CostBasis(positions))
               - (initial_balance + RealizedNet(trade_history))) <= SharesHeld(positions)

MinClockStep == 11

\* a position opened early enough for the clock to pass its expiry within
\* the horizon of the model
OpenedEarly(position_id) ==
    pm_positions[position_id].entry_time + soft_expiry + MinClockStep <= MaxClock

GateClosed(wallet_address) == HaltActive \/ Blocked(Lower(wallet_address))

\* C38: on_trade_detected applies the risk gate to every trade, whatever its
\* side: a trade detected while trading is halted or its wallet is blocked is
\* rejected by check_trade_allowed, a rejected trade returns without touching
\* the ledger, and the ledger changes only inside an execute_trade that
\* followed an allowing check.
C38_GateAppliedToEverySide ==
    /\ [][\A trade \in TradeEvents :
            (OnTradeDetected(trade) /\ GateClosed(trade.wallet_address)) =>
                /\ copy'.stage = "idle" \/ (copy'.stage = "checked" /\ last'.allowed = "False")
                /\ UNCHANGED <<balance, positions, trade_history>>]_vars
    /\ [][(copy.stage = "checked" /\ last.allowed = "False") =>
            (copy'.stage = "idle" /\ UNCHANGED <<balance, positions, trade_history>>)]_vars
    /\ [][<<balance, positions, trade_history>>' # <<balance, positions, trade_history>> =>
            (copy.stage = "executing" /\ last.allowed = "True")]_vars

\* a SELL that would reduce an open position was rejected while trading was
\* halted
C38_Witness ==
    /\ copy.stage = "checked"
    /\ copy.trade.side = "SELL"
    /\ position_key(copy.trade.market_id, copy.trade.outcome) \in DOMAIN positions
    /\ last.reason = "halted"
    /\ last.allowed = "False"

\* the inputs of one check_trade_allowed call
CheckInputs ==
    [wallet_address : WalletInputs, current_balance : BalanceInputs,
     trade_amount : AmountInputs, open_positions_count : OpenCountInputs]

CheckStep(c) ==
    CheckTradeAllowed(c.wallet_address, c.current_balance, c.trade_amount, c.open_positions_count)

\* the wallet is rejected on its own account, before the daily loss is looked at
WalletRejected(wallet_address) ==
    Blocked(Lower(wallet_address)) \/ PoorPerformer(Lower(wallet_address))

\* C39 as stated: manual overrides do not let a still-breached limit pass.  The
\* check_trade_allowed that follows resume_trading() while today's loss is
\* still at or above the limit for the given balance halts again and rejects;
\* the one that follows unblock_wallet() for a wallet whose win rate is still
\* below the floor, with the minimum sample, blocks it again and rejects.
C39_OverrideRechecked ==
    /\ [][\A c \in CheckInputs :
            (CheckStep(c) /\ last.op = "resume_trading" /\ DailyLossHit(c.current_balance)) =>
                (trading_halted' /\ last'.allowed = "False")]_vars
    /\ [][\A c \in CheckInputs :
            (CheckStep(c) /\ last.op = "unblock_wallet"
                          /\ ~Blocked(Lower(c.wallet_address))
                          /\ PoorPerformer(Lower(c.wallet_address))) =>
                (Lower(c.wallet_address) \in blocked_wallets' /\ last'.allowed = "False")]_vars

\* C39, amended: the check that follows the override always rejects, but it
\* re-applies only the first failing rule.  After resume_trading() with the
\* loss still over the limit it halts again unless the wallet is blocked or
\* fails the win rate, which rejects it first and leaves trading resumed;
\* after unblock_wallet() of a poor performer it blocks the wallet again
\* unless trading is halted, which rejects first and leaves it unblocked.
C39_OverrideRejectedByFirstRule ==
    /\ [][\A c \in CheckInputs :
            (CheckStep(c) /\ last.op = "resume_trading" /\ DailyLossHit(c.current_balance)) =>
                /\ last'.allowed = "False"
                /\ trading_halted' = ~WalletRejected(c.wallet_address)]_vars
    /\ [][\A c \in CheckInputs :
            (CheckStep(c) /\ last.op = "unblock_wallet"
                          /\ ~Blocked(Lower(c.wallet_address))
                          /\ PoorPerformer(Lower(c.wallet_address))) =>
                /\ last'.allowed = "False"
                /\ (Lower(c.wallet_address) \in blocked_wallets') = ~HaltActive]_vars

\* trading was resumed by hand and the check that followed halted it again on
\* the daily loss
C39_Witness ==
    /\ Len(risk_events) = RiskEventsCap
    /\ risk_events[RiskEventsCap - 1] = "TRADING_RESUMED"
    /\ risk_events[RiskEventsCap] = "TRADING_HALTED"
    /\ last.op = "check_trade_allowed"
    /\ last.reason = "daily_loss"
    /\ trading_halted

\* the closed positions whose P&L is a gain, and the others
ClosedWins == {i \in DOMAIN closed_positions : closed_positions[i].pnl > 0}
ClosedLosses == {i \in DOMAIN closed_positions : closed_positions[i].pnl <= 0}

\* C40: the statistics of the PositionManager agree with its closed history:
\* win_count + loss_count is the number of closed positions, total_pnl is the
\* sum of their pnl, and a close with pnl exactly 0 is counted as a loss.
C40_StatsMatchClosedHistory ==
    /\ win_count + loss_count = Len(closed_positions)
    /\ total_pnl = SumOver([i \in DOMAIN closed_positions |-> closed_positions[i].pnl],
                           DOMAIN closed_positions)
    /\ win_count = Cardinality(ClosedWins)
    /\ loss_count = Cardinality(ClosedLosses)

\* stop() has closed a position at its entry price, counted as a loss, after
\* another position was closed with a gain
C40_Witness ==
    /\ \E i \in DOMAIN closed_positions :
          /\ closed_positions[i].exit_reason = "shutdown"
          /\ closed_positions[i].exit_price = closed_positions[i].entry_price
          /\ closed_positions[i].pnl = 0
    /\ ClosedWins # {}
    /\ loss_count = Cardinality(ClosedLosses)
    /\ loss_count > 0

====
